---- MODULE Spec2Model ----
(***************************************************************************)
(* Pocket Verse (src/app.js): the IndexedDB record store with its two      *)
(* object stores 'authors' and 'pieces', the asynchronous operations built *)
(* on it, and the presentation-layer handlers that call them.              *)
(*                                                                         *)
(* A step of an asynchronous operation is one IndexedDB transaction; the   *)
(* JavaScript that runs between two transactions of one operation runs to  *)
(* completion and is part of the step that follows it.                     *)
(*                                                                         *)
(* Besides the store: the closure of addLongPress, the stepper of the      *)
(* memorise page, and the offline cache controller, which is not part of   *)
(* src/app.js and is modelled after section 4.4 of the specification.      *)
(***************************************************************************)
EXTENDS Integers, Sequences, FiniteSets, TLC

VARIABLES
    authors,    \* object store 'authors': a set of records, keyPath 'id'
    pieces,     \* object store 'pieces': a set of records, keyPath 'id'
    authorKey,  \* key generator of 'authors' (autoIncrement): the next key
    pieceKey,   \* key generator of 'pieces'
    now,        \* the value Date.now() returns
    locale,     \* the host's collation: which case localeCompare puts first
    tasks,      \* the asynchronous operations in flight, one per slot
    last,       \* the operation that settled in the latest step, if one did
    screen,     \* what #app shows: the page, and the category or authorId it was rendered for
    file,       \* the last document exportJSON produced (0 or 1 of them)
    db,         \* `let db`: the shared handle of the open database, or undefined
    openErrors, \* how many indexedDB.open requests the host has failed
    worker,     \* the offline cache controller, its caches and the network
    press,      \* the closure of addLongPress for one element, and its timers
    memo        \* the closure of renderMemorisePiece: the stepper of the memorise page

\* The state that the operations on an open database leave alone
apart == <<openErrors, worker, press, memo>>

vars == <<authors, pieces, authorKey, pieceKey, now, locale, tasks, last, screen, file,
          db, apart>>

-----------------------------------------------------------------------------
(* Bounds of the model *)

MaxKey == 2      \* keys the generators hand out per object store
MaxTasks == 2    \* asynchronous operations in flight at once
MaxClock == 2    \* values of Date.now()
MaxListed == 3   \* records created where the order of a listing is at stake
MaxOpenErrors == 2   \* open requests that the host fails
MaxGen == 2      \* generation tags that are deployed
MaxDowns == 3    \* pointerdown events on the element

Keys == 1..MaxKey
TaskIds == 1..MaxTasks

-----------------------------------------------------------------------------
(* Values *)

Categories == {"Poems", "Quotes"}

\* The movement in px beyond which a press is no tap
MoveTolerance == 10

\* A string is a sequence of characters; a character is a letter in one case.
Letters == {"a", "A", "b", "B"}

toLowerChar(c) == IF c = "A" THEN "a" ELSE IF c = "B" THEN "b" ELSE c

toLowerCase(s) == [i \in DOMAIN s |-> toLowerChar(s[i])]

isLower(c) == toLowerChar(c) = c

\* The alphabetic (primary) weight of a character: its letter, whatever the case.
Primary(c) == IF toLowerChar(c) = "a" THEN 1 ELSE 2

\* The case (tertiary) weight of a character under the host's collation.
Tertiary(c) ==
    IF isLower(c) THEN (IF locale = "lowerFirst" THEN 1 ELSE 2)
                  ELSE (IF locale = "lowerFirst" THEN 2 ELSE 1)

\* Lexicographic comparison of two sequences of weights: -1, 0 or 1.
RECURSIVE CompareWeights(_, _)
CompareWeights(u, v) ==
    IF u = <<>> /\ v = <<>> THEN 0
    ELSE IF u = <<>> THEN -1
    ELSE IF v = <<>> THEN 1
    ELSE IF Head(u) < Head(v) THEN -1
    ELSE IF Head(u) > Head(v) THEN 1
    ELSE CompareWeights(Tail(u), Tail(v))

\* String.prototype.localeCompare with no options: the letters decide; strings
\* with the same letters are told apart by case.
localeCompare(s, t) ==
    LET p == CompareWeights([i \in DOMAIN s |-> Primary(s[i])],
                            [i \in DOMAIN t |-> Primary(t[i])])
    IN  IF p # 0 THEN p
        ELSE CompareWeights([i \in DOMAIN s |-> Tertiary(s[i])],
                            [i \in DOMAIN t |-> Tertiary(t[i])])

\* String.prototype.trim: without the white space at either end
RECURSIVE trimStart(_)
trimStart(s) == IF s # <<>> /\ Head(s) = " " THEN trimStart(Tail(s)) ELSE s

RECURSIVE trimEnd(_)
trimEnd(s) ==
    IF s # <<>> /\ s[Len(s)] = " " THEN trimEnd(SubSeq(s, 1, Len(s) - 1)) ELSE s

trim(s) == trimEnd(trimStart(s))

\* Object.assign(target, source)
ObjectAssign(target, source) ==
    [f \in (DOMAIN target) \cup (DOMAIN source) |->
        IF f \in DOMAIN source THEN source[f] ELSE target[f]]

-----------------------------------------------------------------------------
(* IndexedDB primitives on an object store given as a set of records *)

KeysOf(store) == {r.id : r \in store}

\* IDBObjectStore.get(key): the record, or nothing (undefined)
Get(store, key) ==
    IF key \in KeysOf(store) THEN <<CHOOSE r \in store : r.id = key>> ELSE <<>>

\* IDBObjectStore.put(record): insert or replace under the record's key
Put(store, rec) == {r \in store : r.id # rec.id} \cup {rec}

\* IDBObjectStore.delete(key): absent keys are not an error
Delete(store, key) == {r \in store : r.id # key}

\* A cursor walks the records in ascending key order.
RECURSIVE Cursor(_)
Cursor(store) ==
    IF store = {} THEN <<>>
    ELSE LET first == CHOOSE r \in store : \A q \in store : r.id <= q.id
         IN  <<first>> \o Cursor(store \ {first})

\* Array.prototype.sort(compare): a stable sort; less[i][j] tells whether
\* compare(arr[i], arr[j]) < 0. The element at index i lands after every element
\* that compares less and after every element before it in the array that does
\* not compare greater.
ArraySort(arr, less) ==
    LET n == Len(arr)
        rank == [i \in 1..n |->
                    1 + Cardinality({j \in 1..n : j # i /\
                        (less[j][i] \/ (~less[i][j] /\ j < i))})]
    IN  [k \in 1..n |-> arr[CHOOSE i \in 1..n : rank[i] = k]]

\* IDBObjectStore.add that gives a record without id the lowest key not in use
IDBAddLowestFree(store, generator, rec) ==
    IF "id" \in DOMAIN rec
    THEN IF rec.id \in KeysOf(store)
         THEN [error |-> TRUE, store |-> store, generator |-> generator, key |-> rec.id]
         ELSE [error |-> FALSE, store |-> store \cup {rec},
               generator |-> IF rec.id >= generator THEN rec.id + 1 ELSE generator,
               key |-> rec.id]
    ELSE LET key == CHOOSE k \in 1..generator :
                        k \notin KeysOf(store) /\ \A j \in 1..(k - 1) : j \in KeysOf(store)
         IN  [error |-> FALSE,
              store |-> store \cup {ObjectAssign(rec, [id |-> key])},
              generator |-> IF key >= generator THEN key + 1 ELSE generator,
              key |-> key]

\* IDBObjectStore.add whose key generator is not moved by the keys that records
\* carry: a generated key that is taken fails the request
IDBAddGeneratorApart(store, generator, rec) ==
    IF "id" \in DOMAIN rec
    THEN IF rec.id \in KeysOf(store)
         THEN [error |-> TRUE, store |-> store, generator |-> generator, key |-> rec.id]
         ELSE [error |-> FALSE, store |-> store \cup {rec}, generator |-> generator,
               key |-> rec.id]
    ELSE IF generator \in KeysOf(store)
         THEN [error |-> TRUE, store |-> store, generator |-> generator + 1,
               key |-> generator]
         ELSE [error |-> FALSE,
               store |-> store \cup {ObjectAssign(rec, [id |-> generator])},
               generator |-> generator + 1, key |-> generator]

\* IDBObjectStore.add that takes every key from the generator
IDBAddByGenerator(store, generator, rec) ==
    [error |-> FALSE,
     store |-> store \cup {ObjectAssign(rec, [id |-> generator])},
     generator |-> generator + 1, key |-> generator]

\* IDBObjectStore.add(record) on a store with keyPath 'id' and autoIncrement:
\* a record that carries an id is stored under it, and the request fails with a
\* ConstraintError when the key is taken; a record without one gets the
\* generator's key. A key from the record moves the generator past it.
IDBAdd(store, generator, rec) ==
    IF "id" \in DOMAIN rec
    THEN IF rec.id \in KeysOf(store)
         THEN [error |-> TRUE, store |-> store, generator |-> generator, key |-> rec.id]
         ELSE [error |-> FALSE, store |-> store \cup {rec},
               generator |-> IF rec.id >= generator THEN rec.id + 1 ELSE generator,
               key |-> rec.id]
    ELSE [error |-> FALSE,
          store |-> store \cup {ObjectAssign(rec, [id |-> generator])},
          generator |-> generator + 1, key |-> generator]

-----------------------------------------------------------------------------
(* Snapshot documents: JSON text *)

\* The order in which JSON.stringify writes the properties of a record
FieldOrder == <<"id", "authorId", "name", "category", "title", "text",
                "favorite", "createdAt">>

\* JSON.stringify of a record: its properties as "key": value pairs
StringifyRecord(rec) ==
    LET fields == SelectSeq(FieldOrder, LAMBDA f : f \in DOMAIN rec)
    IN  [i \in DOMAIN fields |-> <<fields[i], rec[fields[i]]>>]

\* JSON.parse of such text: the object with these properties
ParseRecord(text) ==
    [f \in {text[i][1] : i \in DOMAIN text} |->
        LET i == CHOOSE k \in DOMAIN text : text[k][1] = f IN text[i][2]]

\* A property of the document: an array of records, another value, or missing
ArrayOf(items) == [kind |-> "array", items |-> items]
NotAnArray == [kind |-> "number", items |-> <<>>]
Missing == [kind |-> "missing", items |-> <<>>]

\* The text of a file: not JSON ("garbage"), the JSON null, or a JSON object
Garbage == [kind |-> "garbage", version |-> 0, exportedAt |-> 0,
            authors |-> Missing, pieces |-> Missing]
JsonNull == [Garbage EXCEPT !.kind = "null"]
JsonObject(authorsValue, piecesValue) ==
    [kind |-> "object", version |-> 1, exportedAt |-> 0,
     authors |-> authorsValue, pieces |-> piecesValue]

\* Stringify that leaves the id out of every record
StringifyWithoutIds(exportedAt, authorList, pieceList) ==
    LET Keyless(rec) == [f \in DOMAIN rec \ {"id"} |-> rec[f]]
    IN  [kind |-> "object", version |-> 1, exportedAt |-> exportedAt,
         authors |-> ArrayOf([i \in DOMAIN authorList |->
                                 StringifyRecord(Keyless(authorList[i]))]),
         pieces |-> ArrayOf([i \in DOMAIN pieceList |->
                                 StringifyRecord(Keyless(pieceList[i]))])]

\* JSON.stringify({version: 1, exportedAt, authors, pieces})
Stringify(exportedAt, authorList, pieceList) ==
    [kind |-> "object", version |-> 1, exportedAt |-> exportedAt,
     authors |-> ArrayOf([i \in DOMAIN authorList |-> StringifyRecord(authorList[i])]),
     pieces |-> ArrayOf([i \in DOMAIN pieceList |-> StringifyRecord(pieceList[i])])]

\* The records of a store that an index on keyPath field holds: a record whose
\* field is missing yields no key and is left out of the index.
Indexed(store, field) == {r \in store : field \in DOMAIN r}

-----------------------------------------------------------------------------
(* Read operations: each is one read-only transaction *)

getAuthor(id) == Get(authors, id)

getPiece(id) == Get(pieces, id)

AuthorNameLess(a, b) == localeCompare(a.name, b.name) < 0

\* The scan and sort of listAuthors with the index opened on the whole store,
\* not on the category
ScanAnyCategory(store, category) ==
    LET out == Cursor(store)
    IN  ArraySort(out, [i \in DOMAIN out |-> [j \in DOMAIN out |->
                            AuthorNameLess(out[i], out[j])]])

\* The UTF-16 code unit of a character
CodeUnit(c) == IF c = "A" THEN 65 ELSE IF c = "B" THEN 66 ELSE IF c = "a" THEN 97 ELSE 98

\* The comparator (a, b) => a.name < b.name ? -1 : 1, which compares code units
AuthorNameLessByCodeUnit(a, b) ==
    CompareWeights([i \in DOMAIN a.name |-> CodeUnit(a.name[i])],
                   [i \in DOMAIN b.name |-> CodeUnit(b.name[i])]) < 0

\* listAuthors sorting with that comparator
ScanByCategoryCodeUnits(store, category) ==
    LET out == Cursor({a \in store : a.category = category})
    IN  ArraySort(out, [i \in DOMAIN out |-> [j \in DOMAIN out |->
                            AuthorNameLessByCodeUnit(out[i], out[j])]])

\* The scan of index byCategory over IDBKeyRange.only(category), and the sort
ScanByCategory(store, category) ==
    LET out == Cursor({a \in Indexed(store, "category") : a.category = category})
    IN  ArraySort(out, [i \in DOMAIN out |-> [j \in DOMAIN out |->
                            AuthorNameLess(out[i], out[j])]])

listAuthors(category) == ScanByCategory(authors, category)

\* The comparator (a, b) => a.createdAt - b.createdAt, oldest first
PieceOlderFirst(a, b) == a.createdAt - b.createdAt < 0

PieceNewerFirst(a, b) == b.createdAt - a.createdAt < 0

listPieces(authorId) ==
    LET out == Cursor({p \in Indexed(pieces, "authorId") : p.authorId = authorId})
    IN  ArraySort(out, [i \in DOMAIN out |-> [j \in DOMAIN out |->
                            PieceNewerFirst(out[i], out[j])]])

-----------------------------------------------------------------------------
(* Asynchronous operations in flight *)

NoUpdates == [f \in {} |-> 0]

\* The content of an empty store
NoRecords == [authors |-> {}, pieces |-> {}]

\* A free slot. Besides the operation's own variables (id, upd, got, todo, n, doc,
\* failed) a slot records what the operation met while it ran: alone is FALSE
\* once someone else wrote to the store, owned is the set of pieces of the author
\* when deleteAuthor was called, seen is the set of updates that other savePiece
\* calls on the same piece wrote meanwhile, pre is the content of the store when
\* the operation was called (kept while it runs alone), fromFile tells that
\* importJSON was given the document exportJSON had just made of that content,
\* again that it was called right after an importJSON of the same document
\* had resolved.
Idle == [op |-> "idle", pc |-> "idle", id |-> 0, upd |-> NoUpdates,
         got |-> <<>>, todo |-> <<>>, n |-> 0, doc |-> Garbage, failed |-> FALSE,
         alone |-> TRUE, owned |-> {}, seen |-> {}, pre |-> NoRecords, fromFile |-> FALSE,
         again |-> FALSE]

\* No operation settled in this step.
None == [op |-> "none", res |-> "none", id |-> 0, upd |-> NoUpdates, got |-> <<>>,
         doc |-> Garbage,
         alone |-> TRUE, owned |-> {}, seen |-> {}, pre |-> NoRecords, fromFile |-> FALSE,
         again |-> FALSE]

\* Operation t settles with res ("ok": resolved, "error": rejected).
Settled(t, res) ==
    [op |-> tasks[t].op, res |-> res, id |-> tasks[t].id, upd |-> tasks[t].upd,
     got |-> tasks[t].got, doc |-> tasks[t].doc,
     alone |-> tasks[t].alone, owned |-> tasks[t].owned, seen |-> tasks[t].seen,
     pre |-> tasks[t].pre, fromFile |-> tasks[t].fromFile, again |-> tasks[t].again]

\* A single-transaction operation settles in the step that runs it.
Direct(op, res, id) == [None EXCEPT !.op = op, !.res = res, !.id = id]

\* No operation is in flight
NoneInFlight == \A t \in TaskIds : tasks[t].op = "idle"

\* The slot a newly called operation takes
FreeSlot == CHOOSE t \in TaskIds :
                /\ tasks[t].op = "idle"
                /\ \A u \in TaskIds : tasks[u].op = "idle" => t <= u

HasFreeSlot == \E t \in TaskIds : tasks[t].op = "idle"

Call(op, pc, id, upd) == [Idle EXCEPT !.op = op, !.pc = pc, !.id = id, !.upd = upd]

\* A write by anyone but operation self: the multi-step operations in flight no
\* longer ran alone.
Disturbed(self) ==
    [t \in TaskIds |->
        IF t # self /\ tasks[t].op \in {"deleteAuthor", "importJSON", "exportJSON"}
        THEN [tasks[t] EXCEPT !.alone = FALSE, !.pre = NoRecords] ELSE tasks[t]]

\* Both stores were cleared by operation self: no operation in flight ran alone.
Cleared(self) ==
    [t \in TaskIds |->
        IF t # self /\ tasks[t].op # "idle"
        THEN [tasks[t] EXCEPT !.alone = FALSE, !.pre = NoRecords] ELSE tasks[t]]

\* A write to piece id by savePiece call self with the given updates: the other
\* savePiece calls in flight on that piece have seen it; a write of any other
\* kind to the piece (upd = NoUpdates) means they did not run alone.
PieceWritten(self, id, upd) ==
    [t \in TaskIds |->
        IF t # self /\ tasks[t].op = "savePiece" /\ tasks[t].id = id
        THEN IF upd = NoUpdates
             THEN [tasks[t] EXCEPT !.alone = FALSE]
             ELSE [tasks[t] EXCEPT !.seen = @ \cup {upd}]
        ELSE Disturbed(self)[t]]

\* The requests of one Promise.all batch are made in one run of JavaScript, so
\* their transactions are consecutive in the object store's queue: once the first
\* has run, no other transaction on that store runs before the last.
PiecesBusy(self) ==
    \E t \in TaskIds \ {self} :
        tasks[t].pc \in {"delPieces", "addPieces"} /\ tasks[t].n > 0

AuthorsBusy(self) ==
    \E t \in TaskIds \ {self} : tasks[t].pc = "addAuthors" /\ tasks[t].n > 0

\* await openDBIfNeeded() of an operation whose step goes on: the handle is set,
\* or openDB() resolves and req.onsuccess sets it.
openDBIfNeeded ==
    /\ db' = "IDBDatabase"
    /\ UNCHANGED apart

\* Date.now() moves on
Tick ==
    /\ now < MaxClock
    /\ now' = now + 1
    /\ last' = None
    /\ UNCHANGED <<authors, pieces, authorKey, pieceKey, locale, tasks, screen, file>>
    /\ UNCHANGED <<db, apart>>

-----------------------------------------------------------------------------
(* Write operations of a single transaction *)

addAuthor(name, category) ==
    LET req == IDBAdd(authors, authorKey,
                      [name |-> name, category |-> category, createdAt |-> now])
    IN  /\ ~AuthorsBusy(0)
        /\ authors' = req.store
        /\ authorKey' = req.generator
        /\ tasks' = Disturbed(0)
        /\ last' = Direct("addAuthor", IF req.error THEN "error" ELSE "ok", req.key)
        /\ UNCHANGED <<pieces, pieceKey, now, locale, screen, file>>
        /\ openDBIfNeeded

addPiece(authorId, title, text, favorite) ==
    LET req == IDBAdd(pieces, pieceKey,
                      [authorId |-> authorId, title |-> title, text |-> text,
                       favorite |-> favorite, createdAt |-> now])
    IN  /\ ~PiecesBusy(0)
        /\ pieces' = req.store
        /\ pieceKey' = req.generator
        /\ tasks' = Disturbed(0)
        /\ last' = Direct("addPiece", IF req.error THEN "error" ELSE "ok", req.key)
        /\ UNCHANGED <<authors, authorKey, now, locale, screen, file>>
        /\ openDBIfNeeded

\* delPiece that rejects when no piece has the id
delPieceStrict(id) ==
    /\ ~PiecesBusy(0)
    /\ pieces' = Delete(pieces, id)
    /\ tasks' = PieceWritten(0, id, NoUpdates)
    /\ last' = Direct("delPiece", IF id \in KeysOf(pieces) THEN "ok" ELSE "error", id)
    /\ UNCHANGED <<authors, authorKey, pieceKey, now, locale, screen, file>>
    /\ openDBIfNeeded

delPiece(id) ==
    /\ ~PiecesBusy(0)
    /\ pieces' = Delete(pieces, id)
    /\ tasks' = PieceWritten(0, id, NoUpdates)
    /\ last' = Direct("delPiece", "ok", id)
    /\ UNCHANGED <<authors, authorKey, pieceKey, now, locale, screen, file>>
    /\ openDBIfNeeded

-----------------------------------------------------------------------------
(* savePiece: getPiece in one transaction, Object.assign, put in another.      *)
(* The first transaction of an operation is queued by the call itself, so     *)
(* the call and that transaction are one step.                                *)

\* const p = await getPiece(id); Object.assign(p, updates): a TypeError when p
\* is undefined, and the promise savePiece returned is rejected.
savePieceGet(id, updates) ==
    /\ ~PiecesBusy(0)
    /\ LET p == getPiece(id)
       IN  IF p = <<>>
           THEN /\ tasks' = tasks
                /\ last' = [Direct("savePiece", "error", id) EXCEPT !.upd = updates]
           ELSE /\ HasFreeSlot
                /\ tasks' = [tasks EXCEPT ![FreeSlot] =
                                [Call("savePiece", "put", id, updates) EXCEPT
                                    !.got = <<ObjectAssign(p[1], updates)>>]]
                /\ last' = None
    /\ UNCHANGED <<authors, pieces, authorKey, pieceKey, now, locale, screen, file>>
    /\ openDBIfNeeded

savePiecePut(t) ==
    /\ tasks[t].op = "savePiece" /\ tasks[t].pc = "put"
    /\ ~PiecesBusy(t)
    /\ pieces' = Put(pieces, tasks[t].got[1])
    /\ tasks' = [PieceWritten(t, tasks[t].id, tasks[t].upd) EXCEPT ![t] = Idle]
    /\ last' = Settled(t, "ok")
    /\ UNCHANGED <<authors, authorKey, pieceKey, now, locale, screen, file>>
    /\ openDBIfNeeded

-----------------------------------------------------------------------------
(* updateAuthor: get in one transaction, Object.assign, put in another *)

\* updateAuthorGet without `if (!existing) return`
updateAuthorGetUnchecked(id, updates) ==
    /\ ~AuthorsBusy(0)
    /\ LET existing == getAuthor(id)
       IN  IF existing = <<>>
           THEN /\ tasks' = tasks
                /\ last' = [Direct("updateAuthor", "error", id) EXCEPT !.upd = updates]
           ELSE /\ HasFreeSlot
                /\ tasks' = [tasks EXCEPT ![FreeSlot] =
                                [Call("updateAuthor", "put", id, updates) EXCEPT
                                    !.got = <<ObjectAssign(existing[1], updates)>>]]
                /\ last' = None
    /\ UNCHANGED <<authors, pieces, authorKey, pieceKey, now, locale, screen, file>>
    /\ openDBIfNeeded

\* if (!existing) return; Object.assign(existing, updates)
updateAuthorGet(id, updates) ==
    /\ ~AuthorsBusy(0)
    /\ LET existing == getAuthor(id)
       IN  IF existing = <<>>
           THEN /\ tasks' = tasks
                /\ last' = [Direct("updateAuthor", "ok", id) EXCEPT !.upd = updates]
           ELSE /\ HasFreeSlot
                /\ tasks' = [tasks EXCEPT ![FreeSlot] =
                                [Call("updateAuthor", "put", id, updates) EXCEPT
                                    !.got = <<ObjectAssign(existing[1], updates)>>]]
                /\ last' = None
    /\ UNCHANGED <<authors, pieces, authorKey, pieceKey, now, locale, screen, file>>
    /\ openDBIfNeeded

updateAuthorPut(t) ==
    /\ tasks[t].op = "updateAuthor" /\ tasks[t].pc = "put"
    /\ ~AuthorsBusy(t)
    /\ authors' = Put(authors, tasks[t].got[1])
    /\ tasks' = [Disturbed(t) EXCEPT ![t] = Idle]
    /\ last' = Settled(t, "ok")
    /\ UNCHANGED <<pieces, authorKey, pieceKey, now, locale, screen, file>>
    /\ openDBIfNeeded

-----------------------------------------------------------------------------
(* deleteAuthor: listPieces, a batch of delPiece, then the author's delete *)

\* deleteAuthorScan with a cursor over the whole store in place of listPieces(id)
deleteAuthorScanAllPieces(id) ==
    /\ HasFreeSlot
    /\ ~PiecesBusy(0)
    /\ LET found == Cursor(pieces)
       IN  tasks' = [tasks EXCEPT ![FreeSlot] =
                [Call("deleteAuthor",
                      IF found = <<>> THEN "delAuthor" ELSE "delPieces",
                      id, NoUpdates) EXCEPT
                    !.todo = [i \in DOMAIN found |-> found[i].id],
                    !.owned = {p.id : p \in {q \in pieces : q.authorId = id}},
                    !.pre = [authors |-> authors, pieces |-> pieces]]]
    /\ last' = None
    /\ UNCHANGED <<authors, pieces, authorKey, pieceKey, now, locale, screen, file>>
    /\ openDBIfNeeded

\* const pieces = await listPieces(id); Promise.all(pieces.map(p => delPiece(p.id)))
deleteAuthorScan(id) ==
    /\ HasFreeSlot
    /\ ~PiecesBusy(0)
    /\ LET found == listPieces(id)
       IN  tasks' = [tasks EXCEPT ![FreeSlot] =
                [Call("deleteAuthor",
                      IF found = <<>> THEN "delAuthor" ELSE "delPieces",
                      id, NoUpdates) EXCEPT
                    !.todo = [i \in DOMAIN found |-> found[i].id],
                    !.owned = {p.id : p \in {q \in pieces : q.authorId = id}},
                    !.pre = [authors |-> authors, pieces |-> pieces]]]
    /\ last' = None
    /\ UNCHANGED <<authors, pieces, authorKey, pieceKey, now, locale, screen, file>>
    /\ openDBIfNeeded

\* deleteAuthorPiece with delPiece(id) in place of delPiece(p.id)
deleteAuthorPieceByAuthorId(t) ==
    /\ tasks[t].op = "deleteAuthor" /\ tasks[t].pc = "delPieces"
    /\ ~PiecesBusy(t)
    /\ pieces' = Delete(pieces, tasks[t].id)
    /\ tasks' = [PieceWritten(t, tasks[t].id, NoUpdates) EXCEPT
                    ![t].todo = Tail(tasks[t].todo),
                    ![t].n = IF Len(tasks[t].todo) = 1 THEN 0 ELSE tasks[t].n + 1,
                    ![t].pc = IF Len(tasks[t].todo) = 1 THEN "delAuthor" ELSE "delPieces"]
    /\ last' = None
    /\ UNCHANGED <<authors, authorKey, pieceKey, now, locale, screen, file>>
    /\ openDBIfNeeded

\* deleteAuthorPiece with the author's delete made along with the first delPiece
deleteAuthorPieceAndRecord(t) ==
    /\ tasks[t].op = "deleteAuthor" /\ tasks[t].pc = "delPieces"
    /\ ~PiecesBusy(t)
    /\ pieces' = Delete(pieces, Head(tasks[t].todo))
    /\ authors' = Delete(authors, tasks[t].id)
    /\ tasks' = [PieceWritten(t, Head(tasks[t].todo), NoUpdates) EXCEPT
                    ![t].todo = Tail(tasks[t].todo),
                    ![t].n = IF Len(tasks[t].todo) = 1 THEN 0 ELSE tasks[t].n + 1,
                    ![t].pc = IF Len(tasks[t].todo) = 1 THEN "delAuthor" ELSE "delPieces"]
    /\ last' = None
    /\ UNCHANGED <<authorKey, pieceKey, now, locale, screen, file>>
    /\ openDBIfNeeded

\* one delPiece of the batch
deleteAuthorPiece(t) ==
    /\ tasks[t].op = "deleteAuthor" /\ tasks[t].pc = "delPieces"
    /\ ~PiecesBusy(t)
    /\ pieces' = Delete(pieces, Head(tasks[t].todo))
    /\ tasks' = [PieceWritten(t, Head(tasks[t].todo), NoUpdates) EXCEPT
                    ![t].todo = Tail(tasks[t].todo),
                    ![t].n = IF Len(tasks[t].todo) = 1 THEN 0 ELSE tasks[t].n + 1,
                    ![t].pc = IF Len(tasks[t].todo) = 1 THEN "delAuthor" ELSE "delPieces"]
    /\ last' = None
    /\ UNCHANGED <<authors, authorKey, pieceKey, now, locale, screen, file>>
    /\ openDBIfNeeded

\* tx('authors','readwrite').delete(id)
deleteAuthorRecord(t) ==
    /\ tasks[t].op = "deleteAuthor" /\ tasks[t].pc = "delAuthor"
    /\ ~AuthorsBusy(t)
    /\ authors' = Delete(authors, tasks[t].id)
    /\ tasks' = [Disturbed(t) EXCEPT ![t] = Idle]
    /\ last' = Settled(t, "ok")
    /\ UNCHANGED <<pieces, authorKey, pieceKey, now, locale, screen, file>>
    /\ openDBIfNeeded

-----------------------------------------------------------------------------
(* exportJSON: a cursor over authors, a cursor over pieces, JSON.stringify *)

\* exportJSONAuthors that resolves before the cursor has pushed a record
exportJSONAuthorsUnread ==
    /\ HasFreeSlot
    /\ ~AuthorsBusy(0)
    /\ tasks' = [tasks EXCEPT ![FreeSlot] =
                    [Call("exportJSON", "scanPieces", 0, NoUpdates) EXCEPT
                        !.got = <<>>,
                        !.pre = [authors |-> authors, pieces |-> pieces]]]
    /\ last' = None
    /\ UNCHANGED <<authors, pieces, authorKey, pieceKey, now, locale, screen, file>>
    /\ openDBIfNeeded

\* await openDBIfNeeded(); tx('authors').openCursor()
exportJSONAuthors ==
    /\ HasFreeSlot
    /\ ~AuthorsBusy(0)
    /\ tasks' = [tasks EXCEPT ![FreeSlot] =
                    [Call("exportJSON", "scanPieces", 0, NoUpdates) EXCEPT
                        !.got = Cursor(authors),
                        !.pre = [authors |-> authors, pieces |-> pieces]]]
    /\ last' = None
    /\ UNCHANGED <<authors, pieces, authorKey, pieceKey, now, locale, screen, file>>
    /\ openDBIfNeeded

\* tx('pieces').openCursor(), then the Blob of the JSON text is downloaded. The
\* file remembers the content it was made of and whether anyone wrote meanwhile.
exportJSONPieces(t) ==
    /\ tasks[t].op = "exportJSON" /\ tasks[t].pc = "scanPieces"
    /\ ~PiecesBusy(t)
    /\ LET text == Stringify(now, tasks[t].got, Cursor(pieces))
       IN  /\ file' = <<[doc |-> text, src |-> tasks[t].pre, alone |-> tasks[t].alone]>>
           /\ last' = [Settled(t, "ok") EXCEPT !.doc = text]
    /\ tasks' = [tasks EXCEPT ![t] = Idle]
    /\ UNCHANGED <<authors, pieces, authorKey, pieceKey, now, locale, screen>>
    /\ openDBIfNeeded

-----------------------------------------------------------------------------
(* importJSON: file.text(), JSON.parse, clear both stores in one transaction, *)
(* a batch of add for the authors, a batch of add for the pieces              *)

\* importJSON(file) starts reading the file
importJSONCall(doc) ==
    /\ HasFreeSlot
    /\ tasks' = [tasks EXCEPT ![FreeSlot] =
                    [Call("importJSON", "clear", 0, NoUpdates) EXCEPT
                        !.doc = doc,
                        !.pre = [authors |-> authors, pieces |-> pieces],
                        !.fromFile = /\ file # <<>>
                                     /\ file[1].alone
                                     /\ file[1].src = [authors |-> authors, pieces |-> pieces]
                                     /\ file[1].doc = doc,
                        !.again = /\ last.op = "importJSON" /\ last.res = "ok"
                                  /\ last.alone
                                  /\ last.doc = doc]]
    /\ last' = None
    /\ UNCHANGED <<authors, pieces, authorKey, pieceKey, now, locale, screen, file>>
    /\ openDBIfNeeded

\* importJSONClear with a transaction on 'authors' alone
importJSONClearAuthors(t) ==
    /\ tasks[t].op = "importJSON" /\ tasks[t].pc = "clear"
    /\ IF tasks[t].doc.kind = "garbage"
       THEN /\ tasks' = [tasks EXCEPT ![t] = Idle]
            /\ last' = Settled(t, "error")
            /\ UNCHANGED <<authors, pieces>>
       ELSE /\ ~AuthorsBusy(t) /\ ~PiecesBusy(t)
            /\ authors' = {}
            /\ pieces' = pieces
            /\ tasks' = [Cleared(t) EXCEPT ![t].pc = "authors"]
            /\ last' = None
    /\ UNCHANGED <<authorKey, pieceKey, now, locale, screen, file>>
    /\ openDBIfNeeded

\* importJSONClear without the clear
importJSONClearNothing(t) ==
    /\ tasks[t].op = "importJSON" /\ tasks[t].pc = "clear"
    /\ IF tasks[t].doc.kind = "garbage"
       THEN /\ tasks' = [tasks EXCEPT ![t] = Idle]
            /\ last' = Settled(t, "error")
       ELSE /\ ~AuthorsBusy(t) /\ ~PiecesBusy(t)
            /\ tasks' = [tasks EXCEPT ![t].pc = "authors"]
            /\ last' = None
    /\ UNCHANGED <<authors, pieces, authorKey, pieceKey, now, locale, screen, file>>
    /\ openDBIfNeeded

\* const data = JSON.parse(text): a SyntaxError rejects importJSON; otherwise
\* db.transaction(['authors','pieces'],'readwrite') clears both stores.
importJSONClear(t) ==
    /\ tasks[t].op = "importJSON" /\ tasks[t].pc = "clear"
    /\ IF tasks[t].doc.kind = "garbage"
       THEN /\ tasks' = [tasks EXCEPT ![t] = Idle]
            /\ last' = Settled(t, "error")
            /\ UNCHANGED <<authors, pieces>>
       ELSE /\ ~AuthorsBusy(t) /\ ~PiecesBusy(t)
            /\ authors' = {}
            /\ pieces' = {}
            /\ tasks' = [Cleared(t) EXCEPT ![t].pc = "authors"]
            /\ last' = None
    /\ UNCHANGED <<authorKey, pieceKey, now, locale, screen, file>>
    /\ openDBIfNeeded

\* (data.authors||[]) taken from its last element to its first
ArrayReversedOrEmpty(value) ==
    IF value.kind = "array"
    THEN [i \in DOMAIN value.items |-> value.items[Len(value.items) + 1 - i]]
    ELSE <<>>

\* The value (data.authors||[]).map is called on, data being an object
ArrayOrEmpty(value) == IF value.kind = "array" THEN value.items ELSE <<>>

\* (data.authors||[]).map(a => new Promise(...add(a)...)): a TypeError when data
\* is null or data.authors is a number; otherwise the add requests are made.
importJSONAuthors(t) ==
    /\ tasks[t].op = "importJSON" /\ tasks[t].pc = "authors"
    /\ IF tasks[t].doc.kind = "null" \/ tasks[t].doc.authors.kind = "number"
       THEN /\ tasks' = [tasks EXCEPT ![t] = Idle]
            /\ last' = Settled(t, "error")
       ELSE /\ LET items == ArrayOrEmpty(tasks[t].doc.authors)
               IN  tasks' = [tasks EXCEPT
                       ![t].todo = items,
                       ![t].pc = IF items = <<>> THEN "pieces" ELSE "addAuthors"]
            /\ last' = None
    /\ UNCHANGED <<authors, pieces, authorKey, pieceKey, now, locale, screen, file>>
    /\ openDBIfNeeded

\* Where a batch of add requests stands after one more of them: the promise of
\* a failed add is never settled (the request has no onerror), so Promise.all
\* over the batch never settles either and importJSON is left pending.
AfterAdd(t, error, more, then) ==
    [tasks EXCEPT
        ![t].todo = Tail(tasks[t].todo),
        ![t].failed = tasks[t].failed \/ error,
        ![t].n = IF Len(tasks[t].todo) = 1 THEN 0 ELSE tasks[t].n + 1,
        ![t].pc = IF Len(tasks[t].todo) > 1 THEN more
                  ELSE IF tasks[t].failed \/ error THEN "pending" ELSE then]

\* one tx('authors','readwrite').add(a) of the batch
importJSONAddAuthor(t) ==
    /\ tasks[t].op = "importJSON" /\ tasks[t].pc = "addAuthors"
    /\ ~AuthorsBusy(t)
    /\ LET req == IDBAdd(authors, authorKey, ParseRecord(Head(tasks[t].todo)))
       IN  /\ authors' = req.store
           /\ authorKey' = req.generator
           /\ tasks' = [u \in TaskIds |->
                           IF u = t THEN AfterAdd(t, req.error, "addAuthors", "pieces")[t]
                           ELSE IF req.error THEN tasks[u] ELSE Disturbed(t)[u]]
    /\ last' = None
    /\ UNCHANGED <<pieces, pieceKey, now, locale, screen, file>>
    /\ openDBIfNeeded

\* (data.pieces||[]).map(p => new Promise(...add(p)...))
importJSONPieces(t) ==
    /\ tasks[t].op = "importJSON" /\ tasks[t].pc = "pieces"
    /\ IF tasks[t].doc.pieces.kind = "number"
       THEN /\ tasks' = [tasks EXCEPT ![t] = Idle]
            /\ last' = Settled(t, "error")
       ELSE LET items == ArrayOrEmpty(tasks[t].doc.pieces)
            IN  IF items = <<>>
                THEN /\ tasks' = [tasks EXCEPT ![t] = Idle]
                     /\ last' = Settled(t, "ok")
                ELSE /\ tasks' = [tasks EXCEPT ![t].todo = items, ![t].pc = "addPieces"]
                     /\ last' = None
    /\ UNCHANGED <<authors, pieces, authorKey, pieceKey, now, locale, screen, file>>
    /\ openDBIfNeeded

\* one tx('pieces','readwrite').add(p) of the batch; after the last, importJSON
\* resolves
importJSONAddPiece(t) ==
    /\ tasks[t].op = "importJSON" /\ tasks[t].pc = "addPieces"
    /\ ~PiecesBusy(t)
    /\ LET req == IDBAdd(pieces, pieceKey, ParseRecord(Head(tasks[t].todo)))
           after == AfterAdd(t, req.error, "addPieces", "done")[t]
       IN  /\ pieces' = req.store
           /\ pieceKey' = req.generator
           /\ tasks' = [u \in TaskIds |->
                           IF u # t
                           THEN IF req.error THEN tasks[u]
                                ELSE PieceWritten(t, req.key, NoUpdates)[u]
                           ELSE IF after.pc = "done" THEN Idle ELSE after]
           /\ last' = IF after.pc = "done" THEN Settled(t, "ok") ELSE None
    /\ UNCHANGED <<authors, authorKey, now, locale, screen, file>>
    /\ openDBIfNeeded

-----------------------------------------------------------------------------
(* Screens and their handlers *)

\* renderHome()
Home == [page |-> "home", category |-> "", authorId |-> 0]

gotoHome ==
    /\ screen' = Home
    /\ last' = None
    /\ UNCHANGED <<authors, pieces, authorKey, pieceKey, now, locale, tasks, file>>
    /\ UNCHANGED <<db, apart>>

\* renderAuthors(category)
renderAuthors(category) ==
    /\ screen' = [page |-> "authors", category |-> category, authorId |-> 0]
    /\ last' = None
    /\ UNCHANGED <<authors, pieces, authorKey, pieceKey, now, locale, tasks, file>>
    /\ openDBIfNeeded

\* renderPieces(authorId): const author = await getAuthor(authorId);
\* if (!author) return renderHome(); the handlers of the page keep authorId and
\* author.
renderPieces(authorId) ==
    /\ ~AuthorsBusy(0)
    /\ LET author == getAuthor(authorId)
       IN  screen' = IF author = <<>> THEN Home
                     ELSE [page |-> "pieces", category |-> author[1].category,
                           authorId |-> authorId]
    /\ last' = None
    /\ UNCHANGED <<authors, pieces, authorKey, pieceKey, now, locale, tasks, file>>
    /\ openDBIfNeeded

\* click on #fabAddAuthor with a name in the prompt
fabAddAuthor(name) ==
    /\ screen.page = "authors"
    /\ addAuthor(name, screen.category)

\* click on [data-delete] of a listed author, confirmed
delBtn(id) ==
    /\ screen.page = "authors"
    /\ \E i \in DOMAIN listAuthors(screen.category) : listAuthors(screen.category)[i].id = id
    /\ deleteAuthorScan(id)

\* click on #pmAdd with title, text and fav in the modal: if (!text) return
pmAdd(title, text, fav) ==
    /\ screen.page = "pieces"
    /\ trim(text) # <<>>
    /\ addPiece(screen.authorId,
                IF screen.category = "Quotes" THEN <<>> ELSE trim(title),
                trim(text), fav)

\* The piece is in the list of the pieces page
ListedPiece(id) ==
    /\ screen.page = "pieces"
    /\ \E i \in DOMAIN listPieces(screen.authorId) : listPieces(screen.authorId)[i].id = id

\* click on [data-save] of the edit form of a listed piece. titleEl is the first
\* input of the form: the title input, or on a Quotes page, which has none, the
\* Favourite checkbox, whose value is "on".
pieceSaveBtn(id, title, text, fav) ==
    /\ ListedPiece(id)
    /\ savePieceGet(id, [title |-> IF screen.category = "Quotes" THEN <<"o", "n">>
                                   ELSE trim(title),
                         text |-> trim(text),
                         favorite |-> fav])

\* click on [data-delete] of the edit form of a listed piece, confirmed
pieceDelBtn(id) ==
    /\ ListedPiece(id)
    /\ delPiece(id)

\* window 'load' after the page was closed or reloaded while operations were
\* in flight: their JavaScript is gone with the old page, the transactions that
\* were committed stay, and nothing is rendered yet.
load ==
    /\ tasks' = [t \in TaskIds |-> Idle]
    /\ screen' = Home
    /\ last' = IF NoneInFlight THEN None
               ELSE Settled(CHOOSE t \in TaskIds : tasks[t].op # "idle", "interrupted")
    /\ UNCHANGED <<authors, pieces, authorKey, pieceKey, now, locale, file>>
    /\ db' = "undefined"
    /\ UNCHANGED apart

-----------------------------------------------------------------------------
(* openDB when indexedDB.open fails *)

\* openDBFails with `db = req.result` run before the request's outcome is known
openDBFailsHandleSet(op) ==
    /\ db = "undefined"
    /\ openErrors < MaxOpenErrors
    /\ openErrors' = openErrors + 1
    /\ db' = "IDBDatabase"
    /\ last' = Direct(op, "openError", 0)
    /\ UNCHANGED <<authors, pieces, authorKey, pieceKey, now, locale, tasks, screen, file>>
    /\ UNCHANGED <<worker, press, memo>>

\* await openDBIfNeeded() of operation op when db is not set and the host fails
\* the open request: req.onerror rejects the promise of openDB with req.error,
\* the await throws it, and the promise op returned is rejected with it before
\* op has made a transaction.
openDBFails(op) ==
    /\ db = "undefined"
    /\ openErrors < MaxOpenErrors
    /\ openErrors' = openErrors + 1
    /\ db' = db
    /\ last' = Direct(op, "openError", 0)
    /\ UNCHANGED <<authors, pieces, authorKey, pieceKey, now, locale, tasks, screen, file>>
    /\ UNCHANGED <<worker, press, memo>>

-----------------------------------------------------------------------------
(* The offline cache controller (spec section 4.4): a worker with a        *)
(* generation tag and a manifest, the caches it keeps, one per generation, *)
(* and the requests of the pages it controls.                              *)

\* The generation tags v1, v2, ... as numbers; 0 stands for no generation
Gens == 1..MaxGen

\* The manifest: the entry document (shell) first
Manifest == <<"shell", "style", "script">>

ManifestPaths == {Manifest[i] : i \in DOMAIN Manifest}

\* "Code" assets: markup, script, style and the entry document; the other
\* same-origin assets are icons and images
CodeAssets == {"shell", "style", "script", "page"}

\* The requests of a page: navigations to the entry document and to another
\* document of the application, its subresources, a form post, a font of
\* another origin
Navigate(path) == [path |-> path, mode |-> "navigate", method |-> "GET", sameOrigin |-> TRUE]
Subresource(path) == [path |-> path, mode |-> "no-cors", method |-> "GET", sameOrigin |-> TRUE]
Requests ==
    {Navigate("shell"), Navigate("page")}
        \cup {Subresource(p) : p \in {"style", "script", "icon"}}
        \cup {[Navigate("page") EXCEPT !.method = "POST"],
              [Subresource("font") EXCEPT !.sameOrigin = FALSE]}

\* What the application's server answers for a path: the asset as deployed
Live(path) == [path |-> path, gen |-> worker.deployed]

NoCache == [exists |-> FALSE, entries |-> {}]

\* No worker is installing, waiting or activating
NoWorker == [tag |-> 0, state |-> "none", n |-> 0]

NoResponse == [req |-> Navigate("shell"), kind |-> "none", body |-> [path |-> "", gen |-> 0],
               by |-> 0]

\* The browser before the first visit: generation 1 is deployed
FirstVisit ==
    [deployed |-> 1, active |-> 0, next |-> NoWorker,
     caches |-> [g \in Gens |-> NoCache], online |-> TRUE, response |-> NoResponse]

\* The cached copy of a path in a cache: a set with 0 or 1 bodies
Match(cache, path) == {e[2] : e \in {e \in cache.entries : e[1] = path}}

\* cache.put: the copy of the path is replaced
CachePut(cache, path, body) ==
    [cache EXCEPT !.entries = {e \in @ : e[1] # path} \cup {<<path, body>>}]

\* A step of the worker leaves the record store and its pages alone
WorkerStep ==
    /\ last' = None
    /\ UNCHANGED <<authors, pieces, authorKey, pieceKey, now, locale, tasks, screen, file,
                   db, openErrors, press, memo>>

\* The application is redeployed under a new generation tag
deploy ==
    /\ worker.deployed < MaxGen
    /\ worker' = [worker EXCEPT !.deployed = @ + 1]
    /\ WorkerStep

goOffline ==
    /\ worker.online
    /\ worker' = [worker EXCEPT !.online = FALSE]
    /\ WorkerStep

goOnline ==
    /\ ~worker.online
    /\ worker' = [worker EXCEPT !.online = TRUE]
    /\ WorkerStep

\* Installing begins: the browser has fetched the worker of the deployed
\* generation, and the worker opens the cache bound to its tag.
install ==
    /\ worker.online
    /\ worker.next.state = "none"
    /\ worker.active # worker.deployed
    /\ worker' = [worker EXCEPT
                    !.next = [tag |-> worker.deployed, state |-> "installing", n |-> 0],
                    !.caches[worker.deployed] = [@ EXCEPT !.exists = TRUE]]
    /\ WorkerStep

\* Installing: the next asset of the manifest is fetched and put into the cache
\* of the worker's generation; after the last one the worker waits to activate.
precache ==
    /\ worker.next.state = "installing"
    /\ worker.online
    /\ LET g == worker.next.tag
           path == Manifest[worker.next.n + 1]
       IN  worker' = [worker EXCEPT
                        !.caches[g] = CachePut(@, path, Live(path)),
                        !.next.n = @ + 1,
                        !.next.state = IF worker.next.n + 1 = Len(Manifest)
                                       THEN "waiting" ELSE "installing"]
    /\ WorkerStep

\* Installing fails when an asset cannot be fetched: the worker is discarded
installFails ==
    /\ worker.next.state = "installing"
    /\ ~worker.online
    /\ worker' = [worker EXCEPT !.next = NoWorker]
    /\ WorkerStep

\* Waiting-to-activate ends: the worker of the previous generation, if there
\* is one, controls no page any more
activate ==
    /\ worker.next.state = "waiting"
    /\ worker' = [worker EXCEPT !.next.state = "activating", !.active = 0]
    /\ WorkerStep

\* The cache generations that Activating is to delete
Stale == {g \in Gens : worker.caches[g].exists /\ g # worker.next.tag}

\* Activating: a cache of another generation is deleted
deleteStale(g) ==
    /\ worker.next.state = "activating"
    /\ g \in Stale
    /\ worker' = [worker EXCEPT !.caches[g] = NoCache]
    /\ WorkerStep

\* becomeActive that does not wait for the deletes
becomeActiveEarly ==
    /\ worker.next.state = "activating"
    /\ worker' = [worker EXCEPT !.active = worker.next.tag, !.next = NoWorker]
    /\ WorkerStep

\* Activating finishes when every other generation is deleted: Active
becomeActive ==
    /\ worker.next.state = "activating"
    /\ Stale = {}
    /\ worker' = [worker EXCEPT !.active = worker.next.tag, !.next = NoWorker]
    /\ WorkerStep

\* The answer to a request and the caches after it
Answer(req, kind, body, caches) ==
    [response |-> [req |-> req, kind |-> kind, body |-> body, by |-> worker.active],
     caches |-> caches]

\* A request that is not intercepted goes to the network
PassThrough(req) ==
    IF worker.online THEN Answer(req, "live", Live(req.path), worker.caches)
    ELSE Answer(req, "failed", NoResponse.body, worker.caches)

\* NetworkFirst without the fall back to the entry document
NetworkFirstOrCopy(req) ==
    LET g == worker.active
        copy == Match(worker.caches[g], req.path)
    IN  IF worker.online
        THEN Answer(req, "live", Live(req.path),
                    [worker.caches EXCEPT ![g] = CachePut(@, req.path, Live(req.path))])
        ELSE IF copy # {}
        THEN Answer(req, "cached", CHOOSE b \in copy : TRUE, worker.caches)
        ELSE Answer(req, "failed", NoResponse.body, worker.caches)

\* Network-first, for code assets: the live response, a copy of which is stored
\* in the cache of the current generation; on network failure the cached copy,
\* and if that is absent the cached entry document
NetworkFirst(req) ==
    LET g == worker.active
        copy == Match(worker.caches[g], req.path)
        shell == Match(worker.caches[g], Manifest[1])
    IN  IF worker.online
        THEN Answer(req, "live", Live(req.path),
                    [worker.caches EXCEPT ![g] = CachePut(@, req.path, Live(req.path))])
        ELSE IF copy # {}
        THEN Answer(req, "cached", CHOOSE b \in copy : TRUE, worker.caches)
        ELSE IF shell # {}
        THEN Answer(req, "cached", CHOOSE b \in shell : TRUE, worker.caches)
        ELSE Answer(req, "failed", NoResponse.body, worker.caches)

\* Cache-first, for the other same-origin assets: the cached copy if present,
\* otherwise the live response, a copy of which is stored; with no copy and no
\* network the request fails
CacheFirst(req) ==
    LET g == worker.active
        copy == Match(worker.caches[g], req.path)
    IN  IF copy # {}
        THEN Answer(req, "cached", CHOOSE b \in copy : TRUE, worker.caches)
        ELSE IF worker.online
        THEN Answer(req, "live", Live(req.path),
                    [worker.caches EXCEPT ![g] = CachePut(@, req.path, Live(req.path))])
        ELSE Answer(req, "failed", NoResponse.body, worker.caches)

\* A page makes a request. The Active worker intercepts the same-origin GET
\* requests; the others, and all requests while no worker is Active, pass
\* through untouched.
fetch(req) ==
    /\ LET out == IF worker.active = 0 \/ req.method # "GET" \/ ~req.sameOrigin
                  THEN PassThrough(req)
                  ELSE IF req.path \in CodeAssets THEN NetworkFirst(req)
                  ELSE CacheFirst(req)
       IN  worker' = [worker EXCEPT !.response = out.response, !.caches = out.caches]
    /\ WorkerStep

-----------------------------------------------------------------------------
(* addLongPress(el, onLongPress, onShortTap): the closure of one element,   *)
(* the timers it has set, and the pointer events on the element. Each       *)
(* pointerdown starts a press, named by the number of the timer it sets;    *)
(* the press ends with the pointerup, pointercancel or pointerleave of its  *)
(* pointer.                                                                 *)

\* The pointers on the element (two fingers)
Pointers == {1, 2}

\* clientX, clientY of an event
Points == {<<0, 0>>, <<6, 8>>, <<11, 0>>}

\* The ids of the timers, which are the numbers of the presses
Presses == 1..MaxDowns

\* Math.hypot(p.x - startX, p.y - startY) > 10
Beyond(p, startX, startY) ==
    (p[1] - startX) * (p[1] - startX) + (p[2] - startY) * (p[2] - startY)
        > MoveTolerance * MoveTolerance

\* let timer = null, longFired = false; let startX = 0, startY = 0. Besides the
\* closure's variables: armed, the timers set and neither cleared nor expired;
\* downs, the number of pointerdown events so far; held, the press of each
\* pointer that is down; origin, the point of each press's pointerdown; and of
\* each press whether its pointer moved beyond the tolerance (moved), its timer
\* expired (expired), how often onLongPress was called for it (longs) and
\* whether onShortTap was called at its pointerup (tapped).
NoPress ==
    [timer |-> 0, longFired |-> FALSE, startX |-> 0, startY |-> 0,
     armed |-> {}, downs |-> 0,
     held |-> [p \in Pointers |-> 0],
     origin |-> [d \in Presses |-> <<0, 0>>],
     moved |-> {}, expired |-> {}, tapped |-> {},
     longs |-> [d \in Presses |-> 0]]

\* An event on the element leaves everything else alone
PressStep ==
    /\ last' = None
    /\ UNCHANGED <<authors, pieces, authorKey, pieceKey, now, locale, tasks, screen, file,
                   db, openErrors, worker, memo>>

\* clear(): if (timer) { clearTimeout(timer); timer = null; }
clear(c) == [c EXCEPT !.armed = @ \ {c.timer}, !.timer = 0]

\* pointerdown of pointer p at point: start(e)
pointerdown(p, point) ==
    /\ press.held[p] = 0
    /\ press.downs < MaxDowns
    /\ LET d == press.downs + 1
       IN  press' = [press EXCEPT
                        !.longFired = FALSE,
                        !.startX = point[1], !.startY = point[2],
                        !.timer = d,
                        !.armed = @ \cup {d},
                        !.downs = d,
                        !.held[p] = d,
                        !.origin[d] = point]
    /\ PressStep

\* A timer that is set expires: longFired = true; onLongPress(e)
timeout(d) ==
    /\ d \in press.armed
    /\ press' = [press EXCEPT
                    !.armed = @ \ {d},
                    !.longFired = TRUE,
                    !.expired = @ \cup {d},
                    !.longs[d] = @ + 1]
    /\ PressStep

\* pointermove of pointer p to point: move(e)
pointermove(p, point) ==
    /\ LET c == IF press.timer # 0 /\ Beyond(point, press.startX, press.startY)
                THEN clear(press) ELSE press
           d == press.held[p]
       IN  press' = IF d # 0 /\ Beyond(point, press.origin[d][1], press.origin[d][2])
                    THEN [c EXCEPT !.moved = @ \cup {d}] ELSE c
    /\ PressStep

\* pointerup of pointer p: end(e)
pointerup(p) ==
    /\ press.held[p] # 0
    /\ LET c == IF press.timer # 0 THEN clear(press) ELSE press
           tap == press.timer # 0 /\ ~press.longFired
       IN  press' = [c EXCEPT
                        !.held[p] = 0,
                        !.tapped = IF tap THEN @ \cup {press.held[p]} ELSE @]
    /\ PressStep

\* pointercancel or pointerleave of pointer p: clear()
pointercancel(p) ==
    /\ press' = [clear(press) EXCEPT !.held[p] = 0]
    /\ PressStep

-----------------------------------------------------------------------------
(* renderMemorisePiece(id): the stepper that reveals a piece line by line  *)
(* or word by word                                                         *)

\* White space in a text: the blank and the line feed
LineFeed == "\n"
WhiteSpace == {" ", LineFeed}

\* String.prototype.split at every character of seps: the segments between
\* them, empty ones included
RECURSIVE Split(_, _)
Split(text, seps) ==
    IF \A i \in DOMAIN text : text[i] \notin seps
    THEN <<text>>
    ELSE LET k == CHOOSE i \in DOMAIN text :
                      text[i] \in seps /\ \A j \in 1..(i - 1) : text[j] \notin seps
         IN  <<SubSeq(text, 1, k - 1)>> \o Split(SubSeq(text, k + 1, Len(text)), seps)

\* .map(l => l.trim()).filter(l => l.length)
TrimmedNonEmpty(segments) ==
    SelectSeq([i \in DOMAIN segments |-> trim(segments[i])], LAMBDA l : l # <<>>)

\* fullText.split(/\r?\n/).map(l => l.trim()).filter(l => l.length)
LinesOf(fullText) == TrimmedNonEmpty(Split(fullText, {LineFeed}))

\* fullText.split(/\s+/).map(w => w.trim()).filter(w => w.length): a run of
\* white space splits like its characters one by one, but for empty segments,
\* which the filter drops
WordsOf(fullText) == TrimmedNonEmpty(Split(fullText, WhiteSpace))

\* let mode = null; let seq = []; let idx = 0, the two lists of the piece and
\* the disabled attributes of #memNextBtn and #memBackBtn as the page is
\* rendered. trail remembers the last two actions on the stepper, each with
\* idx and the state of #memNextBtn before it.
Stepper(fullText) ==
    [lines |-> LinesOf(fullText), words |-> WordsOf(fullText),
     mode |-> "null", seq |-> <<>>, idx |-> 0,
     nextDisabled |-> TRUE, backDisabled |-> TRUE, trail |-> <<>>]

NoStepper == Stepper(<<>>)

\* The trail after one more action
Trail(did) ==
    LET step == [did |-> did, idx |-> memo.idx, nextDisabled |-> memo.nextDisabled]
    IN  IF memo.trail = <<>> THEN <<step>> ELSE <<memo.trail[Len(memo.trail)], step>>

\* updateButtons()
updateButtons(m) ==
    [m EXCEPT !.nextDisabled = (m.seq = <<>>) \/ m.idx >= Len(m.seq),
              !.backDisabled = (m.idx = 0)]

\* An action on the stepper leaves everything else alone
StepperStep ==
    /\ last' = None
    /\ UNCHANGED <<authors, pieces, authorKey, pieceKey, now, locale, tasks, screen, file,
                   db, openErrors, worker, press>>

\* renderMemorisePiece(id): renderHome() when the piece is absent, the read
\* view for a quote, the stepper page otherwise. The two reads are one step.
renderMemorisePiece(id) ==
    /\ ~PiecesBusy(0) /\ ~AuthorsBusy(0)
    /\ LET p == getPiece(id)
           a == IF p = <<>> THEN <<>> ELSE getAuthor(p[1].authorId)
           isQuote == a # <<>> /\ a[1].category = "Quotes"
       IN  IF p = <<>>
           THEN screen' = Home /\ memo' = NoStepper
           ELSE IF isQuote
           THEN /\ screen' = [page |-> "piece", category |-> "Quotes",
                              authorId |-> p[1].authorId]
                /\ memo' = NoStepper
           ELSE /\ screen' = [page |-> "memorise",
                              category |-> IF a = <<>> THEN "" ELSE a[1].category,
                              authorId |-> p[1].authorId]
                /\ memo' = Stepper(p[1].text)
    /\ last' = None
    /\ db' = "IDBDatabase"
    /\ UNCHANGED <<authors, pieces, authorKey, pieceKey, now, locale, tasks, file,
                   openErrors, worker, press>>

\* click on #memLinesBtn / #memWordsBtn: start(newMode)
start(newMode) ==
    /\ screen.page = "memorise"
    /\ memo' = updateButtons([memo EXCEPT
                                !.mode = newMode,
                                !.seq = IF newMode = "lines" THEN memo.lines ELSE memo.words,
                                !.idx = 0,
                                !.trail = Trail("start")])
    /\ StepperStep

\* showNext without `if (idx >= seq.length) return`
showNextPastEnd ==
    /\ screen.page = "memorise"
    /\ memo' = IF memo.seq = <<>> \/ memo.mode = "null"
               THEN [memo EXCEPT !.trail = Trail("showNext")]
               ELSE updateButtons([memo EXCEPT !.idx = @ + 1, !.trail = Trail("showNext")])
    /\ StepperStep

\* showNext()
showNext ==
    /\ screen.page = "memorise"
    /\ memo' = IF memo.seq = <<>> \/ memo.mode = "null" \/ memo.idx >= Len(memo.seq)
               THEN [memo EXCEPT !.trail = Trail("showNext")]
               ELSE updateButtons([memo EXCEPT !.idx = @ + 1, !.trail = Trail("showNext")])
    /\ StepperStep

\* hideBack()
hideBack ==
    /\ screen.page = "memorise"
    /\ memo' = IF memo.idx = 0
               THEN [memo EXCEPT !.trail = Trail("hideBack")]
               ELSE updateButtons([memo EXCEPT !.idx = @ - 1, !.trail = Trail("hideBack")])
    /\ StepperStep

-----------------------------------------------------------------------------
(* Specifications *)

Names == {<<"a">>, <<"B">>}
PieceUpdates == {[favorite |-> TRUE], [text |-> <<"b">>]}
AuthorUpdates == {[name |-> nm] : nm \in Names}

EmptyStore ==
    /\ authors = {} /\ pieces = {}
    /\ authorKey = 1 /\ pieceKey = 1
    /\ now = 1
    /\ tasks = [t \in TaskIds |-> Idle]
    /\ last = None
    /\ screen = Home
    /\ file = <<>>
    /\ db = "undefined"
    /\ openErrors = 0
    /\ worker = FirstVisit
    /\ press = NoPress
    /\ memo = NoStepper

Init == EmptyStore /\ locale = "lowerFirst"

\* The pieces store under concurrent callers
NextPieces ==
    \/ pieceKey <= MaxKey /\ \E f \in BOOLEAN : addPiece(1, <<>>, <<"a">>, f)
    \/ \E id \in Keys : delPiece(id)
    \/ \E id \in Keys, u \in PieceUpdates : savePieceGet(id, u)
    \/ \E t \in TaskIds : savePiecePut(t)

SpecPieces == Init /\ [][NextPieces]_vars

\* Authors and the pieces they own under concurrent callers
NextAuthors ==
    \/ authorKey <= MaxKey /\ \E nm \in Names, c \in Categories : addAuthor(nm, c)
    \/ pieceKey <= MaxKey /\ \E a \in Keys : addPiece(a, <<>>, <<"a">>, FALSE)
    \/ \E id \in Keys, u \in AuthorUpdates : updateAuthorGet(id, u)
    \/ \E id \in Keys : deleteAuthorScan(id)
    \/ \E t \in TaskIds : updateAuthorPut(t)
    \/ \E t \in TaskIds : deleteAuthorPiece(t)
    \/ \E t \in TaskIds : deleteAuthorRecord(t)

SpecAuthors == Init /\ [][NextAuthors]_vars

\* The authors of the categories in every order of creation, on hosts of
\* either collation
ListNames == {<<"a">>, <<"A">>, <<"B">>, <<"A", "b">>, <<"a", "B">>}

InitListAuthors == EmptyStore /\ locale \in {"lowerFirst", "upperFirst"}

NextListAuthors ==
    authorKey <= MaxListed /\ \E nm \in ListNames, c \in Categories : addAuthor(nm, c)

SpecListAuthors == InitListAuthors /\ [][NextListAuthors]_vars

\* The pieces of two authors, created and deleted as time passes or stands still
NextListPieces ==
    \/ pieceKey <= MaxListed /\ \E a \in 1..2 : addPiece(a, <<>>, <<"a">>, FALSE)
    \/ \E id \in 1..MaxListed : delPiece(id)
    \/ Tick

SpecListPieces == Init /\ [][NextListPieces]_vars

\* Snapshots: export and import next to callers that add and delete
AuthorOne == StringifyRecord([id |-> 1, name |-> <<"a">>, category |-> "Poems",
                              createdAt |-> 1])
PieceTwo == StringifyRecord([id |-> 2, authorId |-> 1, title |-> <<>>,
                             text |-> <<"a">>, favorite |-> FALSE, createdAt |-> 1])

SnapshotDocs ==
    { Garbage, JsonNull,
      JsonObject(NotAnArray, Missing),
      JsonObject(ArrayOf(<<AuthorOne>>), NotAnArray),
      JsonObject(ArrayOf(<<AuthorOne>>), ArrayOf(<<PieceTwo>>)),
      JsonObject(ArrayOf(<<AuthorOne, AuthorOne>>), Missing),
      JsonObject(Missing, ArrayOf(<<PieceTwo, PieceTwo>>)) }

NextSnapshot ==
    \/ authorKey <= MaxKey /\ addAuthor(<<"B">>, "Quotes")
    \/ pieceKey <= MaxKey /\ addPiece(1, <<>>, <<"b">>, TRUE)
    \/ \E id \in Keys : delPiece(id)
    \/ NoneInFlight /\ exportJSONAuthors
    \/ \E t \in TaskIds : exportJSONPieces(t)
    \/ NoneInFlight /\ \E doc \in SnapshotDocs : importJSONCall(doc)
    \/ NoneInFlight /\ file # <<>> /\ importJSONCall(file[1].doc)
    \/ \E t \in TaskIds : importJSONClear(t)
    \/ \E t \in TaskIds : importJSONAuthors(t)
    \/ \E t \in TaskIds : importJSONAddAuthor(t)
    \/ \E t \in TaskIds : importJSONPieces(t)
    \/ \E t \in TaskIds : importJSONAddPiece(t)

SpecSnapshot == Init /\ [][NextSnapshot]_vars

\* A transaction that was queued runs, and the JavaScript that waits for it
\* runs after it: every step an operation in flight can take is taken.
importJSONStep(t) ==
    \/ importJSONClear(t)
    \/ importJSONAuthors(t)
    \/ importJSONAddAuthor(t)
    \/ importJSONPieces(t)
    \/ importJSONAddPiece(t)

FairSnapshot ==
    /\ SpecSnapshot
    /\ \A t \in TaskIds : WF_vars(importJSONStep(t)) /\ WF_vars(exportJSONPieces(t))

\* The application as its user drives it: screens, the footer's import
UIDocs == { JsonNull, JsonObject(ArrayOf(<<AuthorOne>>), ArrayOf(<<PieceTwo>>)) }

\* What is typed into a text field: a text with a blank after it, a blank
UITexts == {<<"b", " ">>, <<" ">>}

NextUI ==
    \/ gotoHome
    \/ \E c \in Categories : renderAuthors(c)
    \/ \E id \in Keys : renderPieces(id)
    \/ authorKey <= MaxKey /\ fabAddAuthor(<<"B">>)
    \/ pieceKey <= MaxKey /\ \E text \in UITexts : pmAdd(<<"a">>, text, FALSE)
    \/ \E id \in Keys : pieceDelBtn(id)
    \/ NoneInFlight /\ \E id \in Keys : delBtn(id)
    \/ NoneInFlight /\ \E doc \in UIDocs : importJSONCall(doc)
    \/ \E t \in TaskIds : deleteAuthorPiece(t)
    \/ \E t \in TaskIds : deleteAuthorRecord(t)
    \/ \E t \in TaskIds : importJSONStep(t)

SpecUI == Init /\ [][NextUI]_vars

\* The pieces page and its forms: the add-piece modal and the edit form
NextEditor ==
    \/ \E c \in Categories : renderAuthors(c)
    \/ \E id \in Keys : renderPieces(id)
    \/ authorKey <= MaxKey /\ fabAddAuthor(<<"B">>)
    \/ pieceKey <= MaxKey /\ \E text \in UITexts : pmAdd(<<"a">>, text, FALSE)
    \/ NoneInFlight /\ \E id \in Keys, text \in UITexts :
                           pieceSaveBtn(id, <<"a", " ">>, text, TRUE)
    \/ \E t \in TaskIds : savePiecePut(t)

SpecEditor == Init /\ [][NextEditor]_vars

\* Restores of documents as a user may have edited them: two records under one
\* id, records without their indexed field
AuthorOneRenamed == StringifyRecord([id |-> 1, name |-> <<"B">>, category |-> "Poems",
                                     createdAt |-> 1])
AuthorTwo == StringifyRecord([id |-> 2, name |-> <<"a">>, category |-> "Quotes",
                              createdAt |-> 1])
AuthorNoCategory == StringifyRecord([id |-> 2, name |-> <<"a">>, createdAt |-> 1])
PieceOne == StringifyRecord([id |-> 1, authorId |-> 1, title |-> <<>>,
                             text |-> <<"a">>, favorite |-> FALSE, createdAt |-> 1])
PieceNoAuthorId == StringifyRecord([id |-> 1, title |-> <<>>, text |-> <<"a">>,
                                    favorite |-> FALSE, createdAt |-> 1])

RestoreDocs ==
    { JsonObject(ArrayOf(<<AuthorOne, AuthorTwo>>), ArrayOf(<<PieceOne, PieceTwo>>)),
      JsonObject(ArrayOf(<<AuthorOne, AuthorOneRenamed, AuthorTwo>>), ArrayOf(<<PieceTwo>>)),
      JsonObject(ArrayOf(<<AuthorOne, AuthorNoCategory>>),
                 ArrayOf(<<PieceTwo, PieceNoAuthorId>>)) }

NextRestore ==
    \/ authorKey <= MaxKey /\ addAuthor(<<"B">>, "Quotes")
    \/ pieceKey <= MaxKey /\ addPiece(1, <<>>, <<"b">>, TRUE)
    \/ NoneInFlight /\ \E doc \in RestoreDocs : importJSONCall(doc)
    \/ \E t \in TaskIds : importJSONStep(t)
    \/ ~NoneInFlight /\ load

SpecRestore == Init /\ [][NextRestore]_vars

\* Cascade deletes, called again and interrupted by the page being closed
NextCascade ==
    \/ authorKey <= MaxKey /\ addAuthor(<<"a">>, "Poems")
    \/ pieceKey <= MaxKey /\ \E a \in Keys : addPiece(a, <<>>, <<"a">>, FALSE)
    \/ NoneInFlight /\ \E id \in Keys : deleteAuthorScan(id)
    \/ \E t \in TaskIds : deleteAuthorPiece(t)
    \/ \E t \in TaskIds : deleteAuthorRecord(t)
    \/ ~NoneInFlight /\ load

SpecCascade == Init /\ [][NextCascade]_vars

\* The record store on a host that may fail to open the database
StoreOps == {"addAuthor", "addPiece", "delPiece", "updateAuthor"}

NextOpen ==
    \/ authorKey <= MaxKey /\ \E nm \in Names, c \in Categories : addAuthor(nm, c)
    \/ pieceKey <= MaxKey /\ \E f \in BOOLEAN : addPiece(1, <<>>, <<"a">>, f)
    \/ \E id \in Keys : delPiece(id)
    \/ \E id \in Keys, u \in AuthorUpdates : updateAuthorGet(id, u)
    \/ \E t \in TaskIds : updateAuthorPut(t)
    \/ \E op \in StoreOps : openDBFails(op)
    \/ load

SpecOpen == Init /\ [][NextOpen]_vars

\* The offline cache controller over deployments, outages and requests
NextWorker ==
    \/ deploy
    \/ goOffline
    \/ goOnline
    \/ install
    \/ precache
    \/ installFails
    \/ activate
    \/ \E g \in Gens : deleteStale(g)
    \/ becomeActive
    \/ \E req \in Requests : fetch(req)

SpecWorker == Init /\ [][NextWorker]_vars

\* Creates after restores: documents whose ids are ahead of the key generators
CreateDocs ==
    { JsonObject(ArrayOf(<<AuthorOne>>), ArrayOf(<<PieceTwo>>)),
      JsonObject(ArrayOf(<<AuthorTwo, AuthorOne>>), ArrayOf(<<PieceOne>>)) }

NextCreate ==
    \/ authorKey <= MaxKey + 1 /\ \E c \in Categories : addAuthor(<<"B">>, c)
    \/ pieceKey <= MaxKey + 1 /\ \E a \in Keys : addPiece(a, <<>>, <<"b">>, TRUE)
    \/ \E id \in Keys : delPiece(id)
    \/ NoneInFlight /\ \E doc \in CreateDocs : importJSONCall(doc)
    \/ \E t \in TaskIds : importJSONStep(t)

SpecCreate == Init /\ [][NextCreate]_vars

\* The pointer events on one element with addLongPress, and its timers
NextPress ==
    \/ \E p \in Pointers, point \in Points : pointerdown(p, point)
    \/ \E p \in Pointers, point \in Points : pointermove(p, point)
    \/ \E p \in Pointers : pointerup(p)
    \/ \E p \in Pointers : pointercancel(p)
    \/ \E d \in Presses : timeout(d)

SpecPress == Init /\ [][NextPress]_vars

\* The memorise page of the pieces in the store
MemoTexts == { <<>>, <<"a", LineFeed, "b">>,
               <<"a", " ", " ", "b", LineFeed, " ", LineFeed, "a">> }

NextMemo ==
    \/ authorKey <= MaxKey /\ \E c \in Categories : addAuthor(<<"a">>, c)
    \/ pieceKey <= MaxKey /\ \E text \in MemoTexts : addPiece(1, <<>>, text, FALSE)
    \/ \E id \in Keys : renderMemorisePiece(id)
    \/ \E mode \in {"lines", "words"} : start(mode)
    \/ showNext
    \/ hideBack

SpecMemo == Init /\ [][NextMemo]_vars

-----------------------------------------------------------------------------
(* Claims *)

\* The ids listAuthors(category) returns when the authors store holds store
ListedIn(store, category) ==
    LET listed == ScanByCategory(store, category)
    IN  {listed[i].id : i \in DOMAIN listed}

\* C1: once deleteAuthor(A) has completed with no other writer running,
\* getAuthor(A) is absent, listPieces(A) is empty and every piece A owned when
\* the cascade was called is absent from getPiece.
C1_CascadeRemovesAuthorAndPieces ==
    (last.op = "deleteAuthor" /\ last.alone) =>
        /\ getAuthor(last.id) = <<>>
        /\ listPieces(last.id) = <<>>
        /\ \A k \in last.owned : getPiece(k) = <<>>

\* C1 witness: a cascade that ran alone has completed for an author with two pieces.
C1_Witness ==
    last.op = "deleteAuthor" /\ last.alone /\ Cardinality(last.owned) = 2

\* C4: savePiece on an id that names no persisted piece completes without an
\* error and leaves both object stores unchanged.
C4_SaveAbsentPieceIsNoOp ==
    [][(last'.op = "savePiece" /\ last'.got = <<>>) =>
            (last'.res = "ok" /\ authors' = authors /\ pieces' = pieces)]_vars

\* C5: when two savePiece calls on one piece overlap and set disjoint fields,
\* the record left by the later one carries the fields of both.
C5_OverlappingSavesBothReflected ==
    (last.op = "savePiece" /\ last.res = "ok" /\ last.alone) =>
        \A u \in last.seen :
            (DOMAIN u) \cap (DOMAIN last.upd) = {} =>
                /\ getPiece(last.id) # <<>>
                /\ \A f \in DOMAIN u : getPiece(last.id)[1][f] = u[f]
                /\ \A f \in DOMAIN last.upd : getPiece(last.id)[1][f] = last.upd[f]

\* C10: an author created by addAuthor(name, C), for as long as it is not
\* deleted, is listed by listAuthors(C) and by listAuthors of no other category,
\* whatever create, rename, update or delete runs.
C10_ListedUnderOwnCategoryOnly ==
    [][\A c \in Categories :
        LET before == ListedIn(authors, c)
            after == ListedIn(authors', c)
            elsewhere == UNION {ListedIn(authors', d) : d \in Categories \ {c}}
        IN  \A a \in authors' :
                (\/ a.id \notin KeysOf(authors) /\ last'.op = "addAuthor" /\ a.category = c
                 \/ a.id \in before)
                => (a.id \in after /\ a.id \notin elsewhere)]_vars

\* C10 witness: author 1 is still listed under its category after author 2 was
\* created and deleted with its pieces and author 1 itself was renamed.
C10_Witness ==
    /\ last.op = "deleteAuthor" /\ last.id = 2 /\ last.owned # {}
    /\ \E a \in authors : a.id = 1 /\ a.id \in ListedIn(authors, a.category)
                                   /\ a.name = <<"B">> /\ a.category = "Quotes"

-----------------------------------------------------------------------------
(* Listings *)

\* Names compared letter by letter, ignoring case: -1, 0 or 1
CompareIgnoringCase(s, t) ==
    CompareWeights([i \in DOMAIN s |-> Primary(s[i])],
                   [i \in DOMAIN t |-> Primary(t[i])])

IdsOf(list) == {list[i].id : i \in DOMAIN list}

NoRepeats(list) == \A i, j \in DOMAIN list : list[i].id = list[j].id => i = j

\* C8 as stated: listPieces(A) is exactly the pieces with authorId A, newest
\* first, and of two pieces with equal createdAt the one with the larger id
\* comes first.
C8_NewestFirstTiesLaterFirst ==
    \A a \in 1..2 :
        LET l == listPieces(a)
        IN  /\ IdsOf(l) = {p.id : p \in {q \in pieces : q.authorId = a}}
            /\ NoRepeats(l)
            /\ \A i, j \in DOMAIN l : i < j =>
                   \/ l[i].createdAt > l[j].createdAt
                   \/ l[i].createdAt = l[j].createdAt /\ l[i].id > l[j].id

\* C8 amended: listPieces(A) is exactly the pieces with authorId A, newest
\* first, and of two pieces with equal createdAt the one with the smaller id
\* comes first.
C8_NewestFirstTiesEarlierFirst ==
    \A a \in 1..2 :
        LET l == listPieces(a)
        IN  /\ IdsOf(l) = {p.id : p \in {q \in pieces : q.authorId = a}}
            /\ NoRepeats(l)
            /\ \A i, j \in DOMAIN l : i < j =>
                   \/ l[i].createdAt > l[j].createdAt
                   \/ l[i].createdAt = l[j].createdAt /\ l[i].id < l[j].id

\* C8 witness: an author has three pieces, two of them created in the same
\* millisecond and one later.
C8_Witness ==
    \E a \in 1..2 :
        LET l == listPieces(a)
        IN  /\ Len(l) = 3
            /\ l[1].createdAt > l[2].createdAt
            /\ l[2].createdAt = l[3].createdAt

\* C9 as stated: listAuthors(C) is sorted ascending by name compared ignoring
\* case, and authors whose names are equal ignoring case are in the order of
\* their creation.
C9_SortedIgnoringCaseStable ==
    \A c \in Categories :
        LET l == listAuthors(c)
        IN  \A i, j \in DOMAIN l : i < j =>
                /\ CompareIgnoringCase(l[i].name, l[j].name) <= 0
                /\ CompareIgnoringCase(l[i].name, l[j].name) = 0 => l[i].id < l[j].id

\* C9 amended: listAuthors(C) is exactly the authors of category C, sorted
\* ascending by name compared ignoring case; names equal ignoring case are in
\* the case order of the host's collation, and authors of the same name are in
\* ascending id order.
C9_SortedIgnoringCaseThenCase ==
    \A c \in Categories :
        LET l == listAuthors(c)
        IN  /\ IdsOf(l) = {a.id : a \in {b \in authors : b.category = c}}
            /\ NoRepeats(l)
            /\ \A i, j \in DOMAIN l : i < j =>
                /\ CompareIgnoringCase(l[i].name, l[j].name) <= 0
                /\ CompareIgnoringCase(l[i].name, l[j].name) = 0 =>
                       CompareWeights([k \in DOMAIN l[i].name |-> Tertiary(l[i].name[k])],
                                      [k \in DOMAIN l[j].name |-> Tertiary(l[j].name[k])]) <= 0
                /\ l[i].name = l[j].name => l[i].id < l[j].id

\* C9 witness: a category lists three authors, two with the same name in the
\* order of their ids, after one whose name differs from theirs by case alone
\* and was created last.
C9_Witness ==
    \E c \in Categories :
        LET l == listAuthors(c)
        IN  /\ Len(l) = 3
            /\ l[1].id = 3 /\ l[2].id = 1 /\ l[3].id = 2
            /\ l[2].name = l[3].name
            /\ l[1].name # l[2].name
            /\ toLowerCase(l[1].name) = toLowerCase(l[2].name)

-----------------------------------------------------------------------------
(* Claims about snapshots *)

\* C2: when importJSON is given the document exportJSON made of the present
\* content of the store, and nobody else writes during either, importJSON
\* resolves and the store then holds exactly the authors and pieces it held
\* before, with the same ids and field values.
C2_RoundTripRestoresStore ==
    /\ \A t \in TaskIds :
          tasks[t].op = "importJSON" /\ tasks[t].fromFile /\ tasks[t].alone
              => tasks[t].pc # "pending"
    /\ last.op = "importJSON" /\ last.fromFile /\ last.alone
          => /\ last.res = "ok"
             /\ authors = last.pre.authors
             /\ pieces = last.pre.pieces

\* a round trip of a store with an author and a piece whose id is not 1
C2_Witness ==
    /\ last.op = "importJSON" /\ last.fromFile /\ last.alone /\ last.res = "ok"
    /\ authors # {}
    /\ \E p \in pieces : p.id = 2
    /\ ~ \E p \in pieces : p.id = 1

\* The input is not JSON, is the JSON null, or has authors or pieces that is
\* present and not an array
Malformed(doc) ==
    \/ doc.kind \in {"garbage", "null"}
    \/ doc.authors.kind = "number"
    \/ doc.pieces.kind = "number"

\* C3: importJSON of a malformed input, with nobody else writing meanwhile,
\* rejects and leaves the store with the content it had at the call.
C3_MalformedImportLeavesStore ==
    last.op = "importJSON" /\ Malformed(last.doc) /\ last.alone
        => /\ last.res = "error"
           /\ authors = last.pre.authors
           /\ pieces = last.pre.pieces

\* C7: every importJSON of a parseable document eventually settles.
C7_ImportEventuallySettles ==
    \A t \in TaskIds :
        (tasks[t].op = "importJSON" /\ tasks[t].doc.kind # "garbage")
            ~> (tasks[t].op = "idle")

-----------------------------------------------------------------------------
(* Claims about the screens *)

\* C6: a piece that addPiece has just stored names, as its authorId, an author
\* that is in the store at that moment.
C6_PieceAddedUnderExistingAuthor ==
    last.op = "addPiece"
        => \E p \in pieces :
               /\ p.id = last.id
               /\ \E a \in authors : a.id = p.authorId

-----------------------------------------------------------------------------
(* Claims about restored stores *)

\* C11: every piece that getPiece returns is returned by listPieces of its
\* authorId, and every author that getAuthor returns is returned by listAuthors
\* of its category.
C11_LookupAndIndexAgree ==
    /\ \A p \in pieces :
          getPiece(p.id) = <<p>>
              => /\ "authorId" \in DOMAIN p
                 /\ \E i \in DOMAIN listPieces(p.authorId) : listPieces(p.authorId)[i] = p
    /\ \A a \in authors :
          getAuthor(a.id) = <<a>>
              => /\ "category" \in DOMAIN a
                 /\ \E i \in DOMAIN listAuthors(a.category) : listAuthors(a.category)[i] = a

\* The records of the first n elements of a document's array
PrefixRecords(items, n) == {ParseRecord(items[k]) : k \in 1..n}

\* Of the first n elements, the records whose id no earlier element carries
PrefixFirstOfId(items, n) ==
    {ParseRecord(items[k]) : k \in {m \in 1..n :
        \A e \in 1..(m - 1) : ParseRecord(items[e]).id # ParseRecord(items[m]).id}}

\* An importJSON that runs alone has cleared the stores, or has just resolved
RestoreUnderWay(t) ==
    /\ tasks[t].op = "importJSON" /\ tasks[t].alone
    /\ tasks[t].pc \in {"authors", "addAuthors", "pieces", "addPieces", "pending"}

RestoreResolved == last.op = "importJSON" /\ last.alone /\ last.res = "ok"

\* C12 as stated: from the clear to the end of an importJSON that runs alone the
\* store holds the records of a prefix of the document's authors and of a
\* prefix of its pieces, pieces only once all authors are in, and nothing else.
IsPrefixOf(doc) ==
    LET as == doc.authors.items
        ps == doc.pieces.items
    IN  \E i \in 0..Len(as), j \in 0..Len(ps) :
            /\ authors = PrefixRecords(as, i)
            /\ pieces = PrefixRecords(ps, j)
            /\ j > 0 => i = Len(as)

C12_StoreIsPrefixOfDocument ==
    /\ \A t \in TaskIds : RestoreUnderWay(t) => IsPrefixOf(tasks[t].doc)
    /\ RestoreResolved => IsPrefixOf(last.doc)

\* C12 amended: from the clear to the end of an importJSON that runs alone the
\* store holds, of a prefix of the document's authors and of a prefix of its
\* pieces, the records that are the first of their id, each under that id,
\* pieces only once every author of the document is in, and nothing else.
IsPrefixOfFirsts(doc) ==
    LET as == doc.authors.items
        ps == doc.pieces.items
    IN  \E i \in 0..Len(as), j \in 0..Len(ps) :
            /\ authors = PrefixFirstOfId(as, i)
            /\ pieces = PrefixFirstOfId(ps, j)
            /\ j > 0 => authors = PrefixRecords(as, Len(as))

C12_StoreIsPrefixOfFirstRecords ==
    /\ \A t \in TaskIds : RestoreUnderWay(t) => IsPrefixOfFirsts(tasks[t].doc)
    /\ RestoreResolved => IsPrefixOfFirsts(last.doc)

\* C12 witness: an importJSON over a store that held an author and a piece has
\* added the first of the document's two pieces.
C12_Witness ==
    \E t \in TaskIds :
        /\ RestoreUnderWay(t) /\ tasks[t].pc = "addPieces"
        /\ tasks[t].pre.authors # {} /\ tasks[t].pre.pieces # {}
        /\ Cardinality(pieces) = 1
        /\ Len(tasks[t].doc.pieces.items) = 2

\* C13: the step of importJSON that clears leaves both stores empty at once,
\* and an importJSON that fails before it leaves both as they were.
C13_ClearEmptiesBothStoresTogether ==
    [][\A t \in TaskIds :
          tasks[t].op = "importJSON" /\ tasks[t].pc = "clear"
              => /\ tasks'[t].pc = "authors" => authors' = {} /\ pieces' = {}
                 /\ tasks'[t].pc = "idle" => authors' = authors /\ pieces' = pieces
                 /\ tasks'[t].pc \in {"clear", "authors", "idle"}]_vars

\* C13 witness: importJSON has just cleared a store that held authors and pieces
C13_Witness ==
    \E t \in TaskIds :
        /\ tasks[t].op = "importJSON" /\ tasks[t].pc = "authors" /\ tasks[t].alone
        /\ tasks[t].pre.authors # {} /\ tasks[t].pre.pieces # {}
        /\ authors = {} /\ pieces = {}

\* C14: an importJSON called right after an importJSON of the same document has
\* resolved, and running alone, resolves and leaves the store as it found it.
C14_SecondRestoreChangesNothing ==
    /\ \A t \in TaskIds :
          tasks[t].op = "importJSON" /\ tasks[t].again /\ tasks[t].alone
              => tasks[t].pc # "pending"
    /\ last.op = "importJSON" /\ last.again /\ last.alone
          => /\ last.res = "ok"
             /\ authors = last.pre.authors
             /\ pieces = last.pre.pieces

\* C14 witness: the second importJSON of a document with an author and a piece
\* has resolved
C14_Witness ==
    /\ last.op = "importJSON" /\ last.again /\ last.alone /\ last.res = "ok"
    /\ authors # {} /\ pieces # {}

-----------------------------------------------------------------------------
(* Claims about the cascade *)

\* Author id and the pieces with that authorId, in a content of the store
HasAuthor(content, id) == \E a \in content.authors : a.id = id
PiecesOf(content, id) == {p \in content.pieces : p.authorId = id}

\* C15: a deleteAuthor that runs alone, whatever an earlier deleteAuthor of the
\* same id did or left undone, resolves with the author and its pieces absent;
\* called when they are already absent it leaves both stores as they are.
C15_CascadeCalledAgain ==
    last.op = "deleteAuthor" /\ last.alone /\ last.res # "interrupted"
        => /\ last.res = "ok"
           /\ getAuthor(last.id) = <<>>
           /\ listPieces(last.id) = <<>>
           /\ (~HasAuthor(last.pre, last.id) /\ PiecesOf(last.pre, last.id) = {})
                 => authors = last.pre.authors /\ pieces = last.pre.pieces

\* C15 witness: deleteAuthor resolved for an id that was given out and whose
\* author and pieces were gone already, with another author's piece in the store
C15_Witness ==
    /\ last.op = "deleteAuthor" /\ last.alone /\ last.res = "ok"
    /\ last.id < authorKey
    /\ ~HasAuthor(last.pre, last.id) /\ PiecesOf(last.pre, last.id) = {}
    /\ pieces # {}

\* What a deleteAuthor(id) that ran alone on an existing author has done before
\* its last step: the author is there, pieces of the author are gone, nothing
\* else has changed.
PartlyDeleted(pre, id) ==
    /\ authors = pre.authors
    /\ pieces \subseteq pre.pieces
    /\ pre.pieces \ pieces \subseteq PiecesOf(pre, id)

\* C16: while deleteAuthor(A) runs alone on an existing author, and after it
\* was interrupted, A is in the store with a subset of its pieces, so every
\* piece with authorId A names an existing author; A goes after its last piece.
C16_AuthorOutlivesItsPieces ==
    /\ \A t \in TaskIds :
          tasks[t].op = "deleteAuthor" /\ tasks[t].alone /\ HasAuthor(tasks[t].pre, tasks[t].id)
              => /\ PartlyDeleted(tasks[t].pre, tasks[t].id)
                 /\ tasks[t].pc = "delAuthor" => PiecesOf([pieces |-> pieces], tasks[t].id) = {}
    /\ last.op = "deleteAuthor" /\ last.alone /\ HasAuthor(last.pre, last.id)
          => IF last.res = "interrupted"
             THEN PartlyDeleted(last.pre, last.id)
             ELSE ~HasAuthor([authors |-> authors], last.id)
                  /\ PiecesOf([pieces |-> pieces], last.id) = {}

\* C16 witness: a deleteAuthor of an author with two pieces was interrupted
\* after the pieces and before the author
C16_Witness ==
    /\ last.op = "deleteAuthor" /\ last.alone /\ last.res = "interrupted"
    /\ Cardinality(PiecesOf(last.pre, last.id)) = 2
    /\ HasAuthor([authors |-> authors], last.id)
    /\ pieces = {}

-----------------------------------------------------------------------------
(* Claims about ids and texts *)

\* C17: the ids of a kind in the store are distinct and below the kind's key
\* generator, the generator never goes back, and addAuthor and addPiece return
\* an id that is not below the generator: an id no record ever had.
C17_IdsAreNeverReused ==
    [][/\ authorKey' >= authorKey /\ pieceKey' >= pieceKey
       /\ \A a \in authors' : a.id < authorKey'
       /\ \A p \in pieces' : p.id < pieceKey'
       /\ Cardinality({a.id : a \in authors'}) = Cardinality(authors')
       /\ Cardinality({q.id : q \in pieces'}) = Cardinality(pieces')
       /\ last'.op = "addAuthor" => last'.id >= authorKey /\ last'.id \notin KeysOf(authors)
       /\ last'.op = "addPiece" => last'.id >= pieceKey /\ last'.id \notin KeysOf(pieces)]_vars

\* C17 witness: addPiece has returned id 2 while no piece 1 is left
C17_Witness ==
    /\ last.op = "addPiece" /\ last.id = 2
    /\ \E p \in pieces : p.id = 2
    /\ ~ \E p \in pieces : p.id = 1

\* C19: no piece in the store has an empty text.
C19_NoPieceWithEmptyText == \A p \in pieces : p.text # <<>>

-----------------------------------------------------------------------------
(* Claims about single records *)

\* C18: updateAuthor(id, {name}) on an absent id resolves and changes nothing;
\* on an author that is still as updateAuthor read it, it replaces the name of
\* that author and changes no other field, no other author and no piece.
C18_RenameChangesTheNameOnly ==
    [][last'.op = "updateAuthor"
          => /\ last'.res = "ok"
             /\ pieces' = pieces
             /\ IF last'.got = <<>>
                THEN getAuthor(last'.id) = <<>> /\ authors' = authors
                ELSE \A a \in authors :
                        a.id = last'.id /\ ObjectAssign(a, last'.upd) = last'.got[1]
                            => authors' = (authors \ {a}) \cup
                                              {[a EXCEPT !.name = last'.upd.name]}]_vars

\* C18 witness: one of two authors has been renamed, with a piece in the store
C18_Witness ==
    /\ last.op = "updateAuthor" /\ last.res = "ok" /\ last.got # <<>>
    /\ Cardinality(authors) = 2
    /\ pieces # {}
    /\ \E a \in authors : a.id = last.id /\ a.name = last.upd.name
    /\ \E a \in authors : a.id # last.id /\ a.name # last.upd.name

\* C20: getAuthor and getPiece of an id that names no record return absent;
\* delPiece of such an id resolves and leaves both stores unchanged.
C20_AbsentIdIsNotAnError ==
    [][/\ \A id \in Keys :
             /\ id \notin KeysOf(authors) => getAuthor(id) = <<>>
             /\ id \notin KeysOf(pieces) => getPiece(id) = <<>>
       /\ last'.op = "delPiece" /\ last'.id \notin KeysOf(pieces)
             => last'.res = "ok" /\ pieces' = pieces /\ authors' = authors]_vars

\* C20 witness: delPiece has resolved for an id that no piece ever had, with a
\* piece in the store
C20_Witness ==
    /\ last.op = "delPiece" /\ last.res = "ok"
    /\ last.id >= pieceKey
    /\ pieces # {}

-----------------------------------------------------------------------------
(* Claims about the database handle *)

\* C21: an operation whose open of the database fails is rejected with the
\* error of the open and leaves the stores, the key generators, the operations
\* in flight, the screen and the handle as they were, the handle unset; and an
\* operation called while the handle is unset opens the database again: it
\* either fails on the open too or ends with the handle set; an operation that
\* resolves, or is rejected for another reason, leaves the handle set.
C21_FailedOpenChangesNothingAndIsRetried ==
    [][/\ last'.res = "openError" =>
            /\ db = "undefined" /\ db' = "undefined"
            /\ UNCHANGED <<authors, pieces, authorKey, pieceKey, tasks, screen, file>>
       /\ (db = "undefined" /\ last'.op \in StoreOps /\ last'.res # "interrupted") =>
            (last'.res = "openError" \/ db' = "IDBDatabase")
       /\ (last'.op \in StoreOps /\ last'.res \in {"ok", "error"}) =>
            db' = "IDBDatabase"]_vars

\* An operation resolved on a database that an earlier operation failed to open
C21_Witness ==
    /\ openErrors > 0
    /\ db = "IDBDatabase"
    /\ last.op = "addAuthor" /\ last.res = "ok"
    /\ \E a \in authors : a.id = last.id

-----------------------------------------------------------------------------
(* Claims about the exported document *)

\* The records that the items of a JSON array stand for
Parsed(items) == [i \in DOMAIN items |-> ParseRecord(items[i])]

\* list holds every record of store once, in the order of their ids
InKeyOrder(list, store) ==
    /\ Len(list) = Cardinality(store)
    /\ {list[i] : i \in DOMAIN list} = store
    /\ \A i, j \in DOMAIN list : i < j => list[i].id < list[j].id

\* The properties of a document, its kind of JSON value aside
PropertiesOf(doc) == DOMAIN doc \ {"kind"}

-----------------------------------------------------------------------------
(* Claims about the offline cache controller *)

\* The paths of which a cache holds a copy
PathsIn(cache) == {e[1] : e \in cache.entries}

\* C23: while a worker is Active and the network is down, a same-origin GET
\* navigation request is answered from the cache and never fails: with the
\* cached copy of the requested document if there is one, with the cached
\* entry document otherwise; after a first install, when the cache holds the
\* manifest's assets and nothing else, the answer is the cached entry document.
C23_OfflineNavigationGetsTheShell ==
    [][LET r == worker'.response
           cache == worker.caches[worker.active]
       IN  (/\ r # worker.response
            /\ r.req.mode = "navigate" /\ r.req.method = "GET" /\ r.req.sameOrigin
            /\ worker.active # 0
            /\ ~worker.online)
           => /\ r.kind = "cached"
              /\ r.body \in Match(cache, IF r.req.path \in PathsIn(cache)
                                         THEN r.req.path ELSE "shell")
              /\ PathsIn(cache) = ManifestPaths => r.body.path = "shell"
              /\ worker'.caches = worker.caches]_vars

\* After the first install of generation 1 and with the network down, the
\* navigation to a document that was never fetched is answered with the
\* entry document that the install cached
C23_Witness ==
    /\ worker.deployed = 1 /\ worker.active = 1
    /\ ~worker.online
    /\ PathsIn(worker.caches[1]) = ManifestPaths
    /\ worker.response.req = Navigate("page")
    /\ worker.response.kind = "cached"
    /\ worker.response.body = [path |-> "shell", gen |-> 1]

\* C24: the step that ends Activating and makes the worker Active leaves the
\* caches as they are, and the only cache that exists then is the one of the
\* worker's generation, holding a copy of every asset of the manifest and of
\* nothing else, as the install put them.
C24_OnlyCurrentGenerationWhenActive ==
    [][(worker.next.state = "activating" /\ worker'.next.state = "none")
           => /\ worker'.active = worker.next.tag
              /\ \A g \in Gens : worker'.caches[g].exists <=> g = worker'.active
              /\ worker'.caches[worker'.active] = worker.caches[worker'.active]
              /\ PathsIn(worker'.caches[worker'.active]) = ManifestPaths]_vars

\* Generation 2 has become Active after generation 1, whose cache is deleted
C24_Witness ==
    /\ worker.active = 2
    /\ worker.next.state = "none"
    /\ ~worker.caches[1].exists
    /\ PathsIn(worker.caches[2]) = ManifestPaths
    /\ worker.response.by = 1


\* The pieces of a document whose authorId is the id of no author of the document
OrphansIn(doc) ==
    {p \in {ParseRecord(doc.pieces.items[i]) : i \in DOMAIN doc.pieces.items} :
        ~ \E i \in DOMAIN doc.authors.items :
            ParseRecord(doc.authors.items[i]).id = p.authorId}

\* The pieces of the store whose authorId is the id of no author of the store
Orphans == {p \in pieces : ~ \E a \in authors : a.id = p.authorId}

\* C25: a document that exportJSON produced with a piece whose authorId names
\* no author of the document comes from an export during which someone wrote
\* to the store, or from a store that has such a piece itself.
C25_OrphanOnlyUnderConcurrentWriter ==
    (last.op = "exportJSON" /\ last.res = "ok" /\ OrphansIn(last.doc) # {})
        => (~last.alone \/ Orphans # {})

\* An author and its piece were added between the two scans: the document has
\* the piece and not the author, and the store has both
C25_Witness ==
    /\ last.op = "exportJSON" /\ last.res = "ok"
    /\ ~last.alone
    /\ Orphans = {}
    /\ \E p \in OrphansIn(last.doc) : p \in pieces

-----------------------------------------------------------------------------
(* Claims about overlapping updates and deletes *)

\* C26: the write step of savePiece or updateAuthor never inserts a record:
\* when the record it read has been deleted since, the record stays absent.
C26_UpdateDoesNotRecreateDeletedRecord ==
    [][/\ \A k \in Keys :
            (k \notin KeysOf(pieces) /\ k \in KeysOf(pieces')) => last'.op # "savePiece"
       /\ \A k \in Keys :
            (k \notin KeysOf(authors) /\ k \in KeysOf(authors')) => last'.op # "updateAuthor"]_vars


\* C27: when deleteAuthor(A) has resolved after others wrote to the store while
\* it ran (an addPiece for A among them), no piece with authorId A is in the store.
C27_NoPieceLeftBehindByCascade ==
    (last.op = "deleteAuthor" /\ last.res = "ok" /\ ~last.alone)
        => ~ \E p \in pieces : p.authorId = last.id

-----------------------------------------------------------------------------
(* Claims about creates after a restore *)

-----------------------------------------------------------------------------
(* Claims about the long press *)

\* C29: no press has called both onLongPress and onShortTap; a press whose
\* pointerup called onShortTap had its timer still set and its pointer within
\* the tolerance of the point of its pointerdown; onLongPress is called at
\* most once for a pointerdown.
C29_PressIsLongOrShort ==
    \A d \in Presses :
        /\ ~(d \in press.tapped /\ press.longs[d] > 0)
        /\ d \in press.tapped => (d \notin press.expired /\ d \notin press.moved)
        /\ press.longs[d] <= 1

-----------------------------------------------------------------------------
(* Claims about the memorise stepper *)

\* C30: on the memorise page 0 <= idx <= seq.length; Next is disabled exactly
\* when seq is empty or idx = seq.length and Back exactly when idx = 0; after
\* start idx is 0; and after a showNext that found Next enabled and a hideBack
\* right after it, idx is what it was before the two.
C30_StepperStaysWithinSeq ==
    screen.page = "memorise" =>
        /\ 0 <= memo.idx /\ memo.idx <= Len(memo.seq)
        /\ memo.nextDisabled <=> (memo.seq = <<>> \/ memo.idx = Len(memo.seq))
        /\ memo.backDisabled <=> (memo.idx = 0)
        /\ (memo.trail # <<>> /\ memo.trail[Len(memo.trail)].did = "start") => memo.idx = 0
        /\ (/\ Len(memo.trail) = 2
            /\ memo.trail[1].did = "showNext" /\ ~memo.trail[1].nextDisabled
            /\ memo.trail[2].did = "hideBack")
           => memo.idx = memo.trail[1].idx

\* By lines in a piece of two lines: the second line was revealed and hidden
\* again
C30_Witness ==
    /\ screen.page = "memorise"
    /\ memo.mode = "lines" /\ Len(memo.seq) = 2
    /\ Len(memo.trail) = 2
    /\ memo.trail[1] = [did |-> "showNext", idx |-> 1, nextDisabled |-> FALSE]
    /\ memo.trail[2].did = "hideBack" /\ memo.trail[2].idx = 2
    /\ memo.idx = 1
    /\ ~memo.nextDisabled /\ ~memo.backDisabled

====
